---- MODULE Spec2Model ----
(***************************************************************************)
(* Single-layer to double-layer skin atlas conversion                      *)
(* (src/src/utils/converter.rs): the region table, scale_rect, the layout  *)
(* check and the crop / flip / overlay pipeline of single2double_image and *)
(* single2double.                                                          *)
(*                                                                         *)
(* Numbers.  Image dimensions are u32.  A u32 is kept as two 16-bit limbs  *)
(* [hi, lo] so that height * 2 can be computed with its carry.  f32 values *)
(* are kept exactly: hd_ratio is the integer numerator of a fraction over  *)
(* 64, and every f32 result is rounded to a 24-bit significand (round to   *)
(* nearest, ties to even) by RoundF32.                                     *)
(***************************************************************************)
EXTENDS Integers, Sequences, FiniteSets, TLC

(***************************************************************************)
(* Bounds of the model                                                     *)
(***************************************************************************)
\* heights 0..MaxHeight of the enumerated single-layer inputs (width = 2h)
MaxHeight == 32
\* widths and heights 0..MaxOdd of the enumerated inputs of any shape
MaxOdd == 5
\* widths 0..MaxScaleWidth handed to the scaler on its own
MaxScaleWidth == 256
\* heights 0..MaxPermHeight of the inputs converted with reordered overlays
MaxPermHeight == 8
\* calls each concurrent thread makes one after the other
MaxCalls == 2

\* OBJ files have at most MaxDefects objects removed or emptied
MaxDefects == 2

(***************************************************************************)
(* u32 and f32 arithmetic                                                  *)
(***************************************************************************)
LIMB == 65536

U32Of(n) == [hi |-> n \div LIMB, lo |-> n % LIMB]

\* the value of a u32 below 2^31
Nat32(u) == u.hi * LIMB + u.lo

\* u32 `* 2`: the wrapped product and whether it overflowed
MulTwoU32(u) ==
    LET lo2 == 2 * u.lo
        hi2 == 2 * u.hi + (lo2 \div LIMB)
    IN  [val |-> [hi |-> hi2 % LIMB, lo |-> lo2 % LIMB], overflow |-> hi2 >= LIMB]

RECURSIVE Pow2(_)
Pow2(n) == IF n = 0 THEN 1 ELSE 2 * Pow2(n - 1)

RECURSIVE BitLen(_)
BitLen(n) == IF n = 0 THEN 0 ELSE 1 + BitLen(n \div 2)

\* significand width of f32
F32_MANTISSA_DIGITS == 24

\* the f32 nearest to the integer m (ties to even); scaling by a power of two
\* does not change the rounding, so this also rounds m / 64
RoundF32(m) ==
    IF BitLen(m) <= F32_MANTISSA_DIGITS THEN m
    ELSE LET s == Pow2(BitLen(m) - F32_MANTISSA_DIGITS)
             q == m \div s
             r == m % s
         IN  IF 2 * r > s \/ (2 * r = s /\ q % 2 = 1) THEN (q + 1) * s ELSE q * s

(***************************************************************************)
(* Region table (canonical 64x64 coordinates, <<x0, y0, x1, y1>>)          *)
(***************************************************************************)
RIGHT_LEG_OUTSIDE_RANGE == <<0, 20, 4, 32>>
RIGHT_LEG_TOP_FRONT_RANGE == <<4, 16, 8, 32>>
RIGHT_LEG_BUTTOM_RANGE == <<8, 16, 12, 20>>
RIGHT_LEG_INSIDE_RANGE == <<8, 20, 12, 32>>

\* mutant: the right leg's back rectangle has its x edges exchanged
RIGHT_LEG_BACK_RANGE_exchanged == <<16, 20, 12, 32>>

RIGHT_LEG_BACK_RANGE == <<12, 20, 16, 32>>

LEFT_LEG_OUTSIDE_RANGE == <<24, 52, 28, 64>>

\* mutant: the left leg's top+front rectangle is one face too wide
LEFT_LEG_TOP_FRONT_RANGE_wide == <<20, 48, 28, 64>>

LEFT_LEG_TOP_FRONT_RANGE == <<20, 48, 24, 64>>
LEFT_LEG_BUTTOM_RANGE == <<24, 48, 28, 52>>
LEFT_LEG_INSIDE_RANGE == <<16, 52, 20, 64>>
LEFT_LEG_BACK_RANGE == <<28, 52, 32, 64>>

RIGHT_ARM_OUTSIDE_RANGE == <<40, 20, 44, 32>>
RIGHT_ARM_TOP_RANGE == <<44, 16, 48, 20>>
RIGHT_ARM_FRONT_RANGE == <<44, 20, 48, 32>>
RIGHT_ARM_BUTTOM_RANGE == <<48, 16, 52, 20>>
RIGHT_ARM_INSIDE_RANGE == <<48, 20, 52, 32>>
\* mutant: the right arm's back rectangle sits four rows too low
RIGHT_ARM_BACK_RANGE_low == <<52, 24, 56, 36>>

RIGHT_ARM_BACK_RANGE == <<52, 20, 56, 32>>

LEFT_ARM_INSIDE_RANGE == <<32, 52, 36, 64>>
LEFT_ARM_TOP_RANGE == <<36, 48, 40, 52>>
\* mutant: the left arm's front face starts at the row of its top face
LEFT_ARM_FRONT_RANGE_from_top == <<36, 48, 40, 60>>

LEFT_ARM_FRONT_RANGE == <<36, 52, 40, 64>>
LEFT_ARM_BUTTOM_RANGE == <<40, 48, 44, 52>>
\* mutant: the outside face is given the rectangle of the inside face
LEFT_ARM_OUTSIDE_RANGE_as_inside == <<32, 52, 36, 64>>

LEFT_ARM_OUTSIDE_RANGE == <<40, 52, 44, 64>>
LEFT_ARM_BACK_RANGE == <<44, 52, 48, 64>>

\* the sub-faces, named as the locals of single2double_image are
Parts == {"leg_top_front", "leg_buttom", "leg_inside", "leg_back", "leg_outside",
          "arm_top", "arm_front", "arm_buttom", "arm_inside", "arm_back", "arm_outside"}

\* right_<part>_area is scale(RightRange[part])
RightRange == [p \in Parts |->
    CASE p = "leg_top_front" -> RIGHT_LEG_TOP_FRONT_RANGE
      [] p = "leg_buttom"    -> RIGHT_LEG_BUTTOM_RANGE
      [] p = "leg_inside"    -> RIGHT_LEG_INSIDE_RANGE
      [] p = "leg_back"      -> RIGHT_LEG_BACK_RANGE
      [] p = "leg_outside"   -> RIGHT_LEG_OUTSIDE_RANGE
      [] p = "arm_top"       -> RIGHT_ARM_TOP_RANGE
      [] p = "arm_front"     -> RIGHT_ARM_FRONT_RANGE
      [] p = "arm_buttom"    -> RIGHT_ARM_BUTTOM_RANGE
      [] p = "arm_inside"    -> RIGHT_ARM_INSIDE_RANGE
      [] p = "arm_back"      -> RIGHT_ARM_BACK_RANGE
      [] p = "arm_outside"   -> RIGHT_ARM_OUTSIDE_RANGE]

\* left_<part>_area is scale(LeftRange[part])
LeftRange == [p \in Parts |->
    CASE p = "leg_top_front" -> LEFT_LEG_TOP_FRONT_RANGE
      [] p = "leg_buttom"    -> LEFT_LEG_BUTTOM_RANGE
      [] p = "leg_inside"    -> LEFT_LEG_INSIDE_RANGE
      [] p = "leg_back"      -> LEFT_LEG_BACK_RANGE
      [] p = "leg_outside"   -> LEFT_LEG_OUTSIDE_RANGE
      [] p = "arm_top"       -> LEFT_ARM_TOP_RANGE
      [] p = "arm_front"     -> LEFT_ARM_FRONT_RANGE
      [] p = "arm_buttom"    -> LEFT_ARM_BUTTOM_RANGE
      [] p = "arm_inside"    -> LEFT_ARM_INSIDE_RANGE
      [] p = "arm_back"      -> LEFT_ARM_BACK_RANGE
      [] p = "arm_outside"   -> LEFT_ARM_OUTSIDE_RANGE]

\* the order of the img.view(..).to_image() statements
CropOrder == <<"leg_top_front", "leg_buttom", "leg_inside", "leg_back", "leg_outside",
               "arm_top", "arm_front", "arm_buttom", "arm_inside", "arm_back", "arm_outside">>

\* the order of the imageops::flip_horizontal statements
FlipOrder == <<"arm_outside", "arm_top", "arm_front", "arm_buttom", "arm_inside", "arm_back",
               "leg_outside", "leg_top_front", "leg_buttom", "leg_inside", "leg_back">>

\* the order of the imageops::overlay statements
\* mutant: the last paste (the leg's outside face) is missing
OverlayOrder_without_leg_outside ==
    <<"arm_outside", "arm_top", "arm_front", "arm_buttom", "arm_inside", "arm_back",
      "leg_top_front", "leg_buttom", "leg_inside", "leg_back">>

OverlayOrder == <<"arm_outside", "arm_top", "arm_front", "arm_buttom", "arm_inside", "arm_back",
                  "leg_top_front", "leg_buttom", "leg_inside", "leg_back", "leg_outside">>

(***************************************************************************)
(* Scaler                                                                  *)
(***************************************************************************)
\* denominator of the HD ratio: img.width() as f32 / 64.0
HD_BASE == 64

\* mutant: the ratio is taken from the height of the single-layer image
hd_ratio_of_height(width) == RoundF32(width \div 2)

\* let hd_ratio = img.width() as f32 / 64.0, kept as its numerator over 64
\* (the division by a power of two is exact)
hd_ratio_of(width) == RoundF32(width)

\* mutant: the canonical coordinate is used unscaled
scale_coord_unscaled(c, hd_ratio) == c

\* (c as f32 * hd_ratio) as u32: the f32 product, then truncation
scale_coord(c, hd_ratio) == RoundF32(c * hd_ratio) \div HD_BASE

\* mutant: the far edges are the near edges plus the scaled size
scale_rect_by_size(rect, hd_ratio) ==
    << scale_coord(rect[1], hd_ratio),
       scale_coord(rect[2], hd_ratio),
       scale_coord(rect[1], hd_ratio) + scale_coord(rect[3] - rect[1], hd_ratio),
       scale_coord(rect[2], hd_ratio) + scale_coord(rect[4] - rect[2], hd_ratio) >>

scale_rect(rect, hd_ratio) ==
    << scale_coord(rect[1], hd_ratio),
       scale_coord(rect[2], hd_ratio),
       scale_coord(rect[3], hd_ratio),
       scale_coord(rect[4], hd_ratio) >>

(***************************************************************************)
(* Images: RGBA8 pixels <<r, g, b, a>>, stored row by row; the pixel       *)
(* (x, y), counted from 0, is px[y + 1][x + 1]; a buffer without pixels    *)
(* has no rows                                                             *)
(***************************************************************************)
\* the pixel of a fresh ImageBuffer (zeroed storage)
Transparent == <<0, 0, 0, 0>>

\* u8::MAX, the opaque alpha
U8_MAX == 255

Cells(w, h) == (0 .. (w - 1)) \X (0 .. (h - 1))

\* the w x h pixel storage whose pixel (x, y) is F(x, y)
Grid(w, h, F(_, _)) ==
    IF w = 0 THEN << >> ELSE [y \in 1 .. h |-> [x \in 1 .. w |-> F(x - 1, y - 1)]]

\* get_pixel(x, y)
At(px, x, y) == px[y + 1][x + 1]

\* mutant: the new canvas is opaque black
NewImageBuffer_opaque(w, h) ==
    [width |-> w, height |-> h, px |-> Grid(w, h, LAMBDA x, y : <<0, 0, 0, 255>>)]

\* ImageBuffer::new(width, height)
NewImageBuffer(w, h) ==
    [width |-> w, height |-> h, px |-> Grid(w, h, LAMBDA x, y : Transparent)]

\* a buffer that holds nothing yet
NoBuffer == NewImageBuffer(0, 0)

\* mutant: the copy loop stops one row early
CopyBase_short(out, image) ==
    [out EXCEPT !.px = Grid(out.width, out.height, LAMBDA x, y :
        IF x < Nat32(image.width) /\ y + 1 < Nat32(image.height)
        THEN At(image.px, x, y) ELSE At(out.px, x, y))]

\* the copy loop: output_img.put_pixel(x, y, img.get_pixel(x, y)) for y < height, x < width
CopyBase(out, image) ==
    [out EXCEPT !.px = Grid(out.width, out.height, LAMBDA x, y :
        IF x < Nat32(image.width) /\ (image.height.hi > 0 \/ y < image.height.lo)
        THEN At(image.px, x, y) ELSE At(out.px, x, y))]

\* img.view(x, y, w, h) accepts the rectangle only inside the image
ViewInBounds(image, area) ==
    /\ area[1] <= area[3] /\ area[2] <= area[4]
    /\ area[3] <= Nat32(image.width)
    /\ image.height.hi > 0 \/ area[4] <= image.height.lo

\* mutant: the view takes x1 as its last column
Crop_one_wider(image, area) ==
    [width |-> area[3] - area[1] + 1, height |-> area[4] - area[2],
     px |-> Grid(area[3] - area[1] + 1, area[4] - area[2], LAMBDA x, y :
                At(image.px, area[1] + x, area[2] + y))]

\* img.view(area.0, area.1, area.2 - area.0, area.3 - area.1).to_image()
Crop(image, area) ==
    [width |-> area[3] - area[1], height |-> area[4] - area[2],
     px |-> Grid(area[3] - area[1], area[4] - area[2], LAMBDA x, y :
                At(image.px, area[1] + x, area[2] + y))]

\* mutant: the patch comes back as it went in
flip_horizontal_unmirrored(patch) == patch

\* imageops::flip_horizontal: column x of the result is column width-1-x
flip_horizontal(patch) ==
    [patch EXCEPT !.px = Grid(patch.width, patch.height, LAMBDA x, y :
        At(patch.px, patch.width - 1 - x, y))]

\* Pixel::blend for Rgba<u8> (source-over): a transparent foreground leaves
\* the background, an opaque one replaces it, anything between is composited.
\* The library evaluates the composite in f32, whose rounding can leave a
\* channel one below the exact quotient computed here; the inputs enumerated
\* below carry alpha 0 or 255 only, so no result rests on that branch.
Blend(bg, fg) ==
    IF fg[4] = 0 THEN bg
    ELSE IF fg[4] = U8_MAX THEN fg
    ELSE LET den == U8_MAX * (bg[4] + fg[4]) - bg[4] * fg[4]
             ch(i) == (fg[i] * fg[4] * U8_MAX + bg[i] * bg[4] * (U8_MAX - fg[4])) \div den
         IN  << ch(1), ch(2), ch(3), den \div U8_MAX >>

\* imageops::overlay(bottom, top, x, y): every pixel of top that falls inside
\* bottom is blended onto the pixel below it
overlay(bottom, top, x, y) ==
    [bottom EXCEPT !.px = Grid(bottom.width, bottom.height, LAMBDA cx, cy :
        IF /\ x <= cx /\ cx < x + top.width
           /\ y <= cy /\ cy < y + top.height
        THEN Blend(At(bottom.px, cx, cy), At(top.px, cx - x, cy - y))
        ELSE At(bottom.px, cx, cy))]

\* mutant: every coordinate is rounded to the nearest pixel
ScaleAll_rounded(ratio) ==
    LET nearest(rect) == [i \in 1 .. 4 |-> (rect[i] * ratio + HD_BASE \div 2) \div HD_BASE]
    IN  [right |-> [p \in Parts |-> nearest(RightRange[p])],
         left  |-> [p \in Parts |-> nearest(LeftRange[p])]]

\* the 22 scale(..) statements
ScaleAll(ratio) ==
    [right |-> [p \in Parts |-> scale_rect(RightRange[p], ratio)],
     left  |-> [p \in Parts |-> scale_rect(LeftRange[p], ratio)]]

ZeroRect == <<0, 0, 0, 0>>

NoAreas == [right |-> [p \in Parts |-> ZeroRect], left |-> [p \in Parts |-> ZeroRect]]

NoPatches == [p \in Parts |-> NoBuffer]

\* the text of the layout error
LAYOUT_ERROR == "Input image is not a single-layer skin (width must be twice the height)."

OPEN_ERROR == "Failed to open input image: "

SAVE_ERROR == "Failed to save output image: "

\* mutant: only an image wider than twice its height is rejected
LayoutCheck_wider_only(image) ==
    LET m == MulTwoU32(image.height)
    IN  IF m.overflow THEN "overflow"
        ELSE IF image.width.hi > m.val.hi
                \/ (image.width.hi = m.val.hi /\ image.width.lo > m.val.lo)
             THEN "reject" ELSE "accept"

\* the layout check of both entry points: img.width() != img.height() * 2 in u32;
\* "overflow" when the product does not fit
LayoutCheck(image) ==
    LET m == MulTwoU32(image.height)
    IN  IF m.overflow THEN "overflow"
        ELSE IF image.width # m.val THEN "reject" ELSE "accept"

\* the comparison as the release profile runs it (wrapping product)
LayoutCheckWrapped(image) ==
    IF image.width # MulTwoU32(image.height).val THEN "reject" ELSE "accept"

(***************************************************************************)
(* Inputs                                                                  *)
(***************************************************************************)
Patterns == {"coords", "mixed", "arm"}

\* "coords": opaque, every pixel names its position;
\* "mixed":  as coords, every other pixel fully transparent but coloured;
\* "arm":    the right-arm outside face opaque red, the rest transparent black
PatternPixel(pat, w, x, y) ==
    CASE pat = "coords" -> << x % 256, y % 256, 64, U8_MAX >>
      [] pat = "mixed"  -> << x % 256, y % 256, 200, IF (x + y) % 2 = 0 THEN U8_MAX ELSE 0 >>
      [] pat = "arm"    ->
            LET a == scale_rect(RIGHT_ARM_OUTSIDE_RANGE, hd_ratio_of(w))
            IN  IF a[1] <= x /\ x < a[3] /\ a[2] <= y /\ y < a[4]
                THEN << U8_MAX, 0, 0, U8_MAX >> ELSE Transparent

MakeImage(w, h, pat) ==
    [width |-> U32Of(w), height |-> U32Of(h),
     px |-> Grid(w, h, LAMBDA x, y : PatternPixel(pat, w, x, y))]

\* 2x pixel replication of a w x h pixel grid
Upscale2Px(px, w, h) == Grid(2 * w, 2 * h, LAMBDA x, y : At(px, x \div 2, y \div 2))

\* the top-left pixel of every 2x2 block of a w x h pixel grid
Downscale2Px(px, w, h) == Grid(w \div 2, h \div 2, LAMBDA x, y : At(px, 2 * x, 2 * y))

Upscale2(image) ==
    [width |-> U32Of(2 * Nat32(image.width)), height |-> U32Of(2 * Nat32(image.height)),
     px |-> Upscale2Px(image.px, Nat32(image.width), Nat32(image.height))]

\* single-layer inputs of every height up to the bound
SingleLayerInputs == { MakeImage(2 * h, h, pat) : h \in 0 .. MaxHeight, pat \in Patterns }

\* inputs of every small shape, and the 10x10 square
AnyShapeInputs ==
    { MakeImage(w, h, "coords") : w \in 0 .. MaxOdd, h \in 0 .. MaxOdd }
        \cup { MakeImage(10, 10, "coords") }

\* the 128x64 inputs that are the 2x upscale of a 64x32 input
HDInputs == { Upscale2(MakeImage(HD_BASE, HD_BASE \div 2, pat)) : pat \in Patterns }

\* dimensions at and above 2^31
BigDims == { [hi |-> 32768, lo |-> 0], [hi |-> 32768, lo |-> 1], [hi |-> 65535, lo |-> 65535] }

\* images without pixels: one side is 0, the other any u32
EmptyInputs ==
    { [width |-> U32Of(0), height |-> d, px |-> << >>] : d \in BigDims }
        \cup { [width |-> d, height |-> U32Of(0), px |-> << >>] : d \in BigDims }

\* a single-layer input wider than 64 whose width is no multiple of 16
FractionalInputs == { MakeImage(72, 36, "coords") }

ImageInputs ==
    SingleLayerInputs \cup AnyShapeInputs \cup HDInputs \cup FractionalInputs \cup EmptyInputs

NoImage == [width |-> U32Of(0), height |-> U32Of(0), px |-> << >>]

\* what lies at input_path: a decodable image, or something image::open rejects
FileInputs ==
    { [readable |-> TRUE, image |-> i] :
        i \in { j \in SingleLayerInputs \cup AnyShapeInputs :
                    Nat32(j.width) > 0 /\ Nat32(j.height) > 0 } }
        \cup { [readable |-> FALSE, image |-> NoImage] }

NoFile == [readable |-> FALSE, image |-> NoImage]

(***************************************************************************)
(* State                                                                   *)
(***************************************************************************)
VARIABLES
    entry,       \* "image": single2double_image(img); "path": single2double(input, output)
    input_file,  \* what lies at input_path (path entry)
    img,         \* the decoded input image
    pc,          \* the statement the call is at
    k,           \* statements of the current crop / flip / overlay block already run
    hd_ratio,    \* numerator of hd_ratio over 64
    output_img,  \* the output canvas
    areas,       \* the scaled rectangles
    right,       \* the cropped right-limb patches
    left,        \* the flipped patches
    result,      \* what the call returned
    out_file,    \* what lies at output_path
    reapplied,   \* the input is the atlas an earlier call returned
    log,         \* the statements the current call has run, in order
    applied,     \* the parts whose overlay has run
    calls,       \* concurrent callers: the locals of each thread's call
    sc_pc,       \* scaler on its own: position
    sc_width,    \* scaler on its own: the input width
    sc_ratio,    \* scaler on its own: numerator of hd_ratio over 64
    sc_rect,     \* scaler on its own: the canonical rectangle last scaled
    sc_out,      \* scaler on its own: its scaled rectangle
    sc_areas,    \* scaler on its own: the 22 scaled rectangles
    lt_pc,       \* Texture::load_from_file / load_texture: position
    lt_file,     \* what lies at the skin path
    lt_image,    \* the image handed to load_texture
    lt_local,    \* the local `image` of load_texture after the if
    lt_converted,\* single2double_image was called
    lt_texture,  \* the texture uploaded to the GPU
    lt_result,   \* what load_from_file returned
    rn_entry,    \* which render function was called
    rn_skin,     \* the skin is Some(..)
    rn_size,     \* the requested (width, height)
    rn_targets,  \* the render targets created so far
    rn_pc,       \* Renderer::render / render_to_image: position
    rn_drawn,    \* the draw calls issued on the framebuffer, in order
    rn_image,    \* the image buffer read back from the render texture
    rn_result,   \* what the call returned
    rn_file,     \* a file exists at filename
    md_pc,       \* Model::load_from_obj: position
    md_obj,      \* the OBJ file at path
    md_i,        \* objects of the file already visited
    md_parts,    \* the HashMap parts: name -> index of the object kept
    md_k,        \* extract_part calls already run
    md_result    \* what load_from_obj returned

conv_vars == << entry, input_file, img, pc, k, hd_ratio, output_img, areas, right, left,
                result, out_file, reapplied, log, applied, calls >>

\* the variables of the single calls of Spec and PermSpec
single_vars == << entry, input_file, img, pc, k, hd_ratio, output_img, areas, right, left,
                  result, out_file, reapplied, log, applied >>

sc_vars == << sc_pc, sc_width, sc_ratio, sc_rect, sc_out, sc_areas >>

lt_vars == << lt_pc, lt_file, lt_image, lt_local, lt_converted, lt_texture, lt_result >>

rn_vars == << rn_entry, rn_skin, rn_size, rn_targets, rn_pc, rn_drawn, rn_image, rn_result, rn_file >>

md_vars == << md_pc, md_obj, md_i, md_parts, md_k, md_result >>

\* the variables of the texture loader, the renderer and the model loader
app_vars == << lt_vars, rn_vars, md_vars >>

vars == << entry, input_file, img, pc, k, hd_ratio, output_img, areas, right, left,
           result, out_file, reapplied, log, applied, calls,
           sc_pc, sc_width, sc_ratio, sc_rect, sc_out, sc_areas,
           lt_pc, lt_file, lt_image, lt_local, lt_converted, lt_texture, lt_result,
           rn_entry, rn_skin, rn_size, rn_targets, rn_pc, rn_drawn, rn_image, rn_result, rn_file,
           md_pc, md_obj, md_i, md_parts, md_k, md_result >>

NoResult == [kind |-> "none", msg |-> "", atlas |-> NoBuffer]

Ok(atlas) == [kind |-> "Ok", msg |-> "", atlas |-> atlas]

Err(msg) == [kind |-> "Err", msg |-> msg, atlas |-> NoBuffer]

\* the call unwound on a panic
Panicked == [kind |-> "panic", msg |-> "", atlas |-> NoBuffer]

NoOutFile == [exists |-> FALSE, image |-> NoBuffer]

\* a file the encoder created and did not finish
PartialOutFile == [exists |-> TRUE, image |-> NoBuffer]

\* the threads that call single2double_image at the same time
Threads == { 1, 2 }

\* the locals of a thread that is not in a call
IdleCall ==
    [img |-> NoImage, pc |-> "idle", k |-> 0, hd_ratio |-> 0,
     output_img |-> NoBuffer, areas |-> NoAreas, right |-> NoPatches, left |-> NoPatches,
     result |-> NoResult, n |-> 0]

NoCalls == [t \in Threads |-> IdleCall]

ScalerIdle ==
    /\ sc_pc = "idle" /\ sc_width = 0 /\ sc_ratio = 0
    /\ sc_rect = ZeroRect /\ sc_out = ZeroRect /\ sc_areas = NoAreas

ConverterIdle ==
    /\ entry = "none" /\ input_file = NoFile /\ img = NoImage
    /\ pc = "idle" /\ k = 0 /\ hd_ratio = 0
    /\ output_img = NoBuffer /\ areas = NoAreas
    /\ right = NoPatches /\ left = NoPatches
    /\ result = NoResult /\ out_file = NoOutFile /\ reapplied = FALSE
    /\ log = << >> /\ applied = {} /\ calls = NoCalls

\* load_from_file has not returned
NoLoad == [kind |-> "none", msg |-> "", cause |-> ""]

TextureIdle ==
    /\ lt_pc = "idle" /\ lt_file = NoFile /\ lt_image = NoImage
    /\ lt_local = NoBuffer /\ lt_converted = FALSE
    /\ lt_texture = NoBuffer /\ lt_result = NoLoad

\* render has not returned
NoRender == [kind |-> "none", msg |-> "", image |-> << >>]

\* no image buffer
NoFrame == << >>

RenderIdle ==
    /\ rn_entry = "none" /\ rn_skin = FALSE /\ rn_size = << 0, 0 >> /\ rn_targets = {}
    /\ rn_pc = "idle" /\ rn_drawn = << >> /\ rn_image = NoFrame
    /\ rn_result = NoRender /\ rn_file = FALSE

\* a file load_obj cannot read or parse
NoObj == [loadable |-> FALSE, objects |-> << >>]

\* HashMap::new()
NoParts == [name \in {} |-> 0]

\* load_from_obj has not returned
NoModel == [kind |-> "none", msg |-> "", part |-> "", model |-> NoParts]

ModelIdle ==
    /\ md_pc = "idle" /\ md_obj = NoObj /\ md_i = 0
    /\ md_parts = NoParts /\ md_k = 0 /\ md_result = NoModel

AppIdle == TextureIdle /\ RenderIdle /\ ModelIdle

\* a call of one of the two entry points is about to run
Init ==
    /\ \/ entry = "image" /\ input_file = NoFile /\ img \in ImageInputs /\ pc = "check"
       \/ entry = "path" /\ input_file \in FileInputs /\ img = NoImage /\ pc = "open"
    /\ k = 0 /\ hd_ratio = 0
    /\ output_img = NoBuffer /\ areas = NoAreas
    /\ right = NoPatches /\ left = NoPatches
    /\ result = NoResult /\ out_file = NoOutFile /\ reapplied = FALSE
    /\ log = << >> /\ applied = {} /\ calls = NoCalls
    /\ ScalerIdle /\ AppIdle

(***************************************************************************)
(* Steps shared by the two (textually duplicated) bodies                   *)
(***************************************************************************)
\* return Err("Input image is not a single-layer skin (..).".to_string()):
\* the error value the layout check returns for the image it rejects
LayoutErrorOf(image) == Err(LAYOUT_ERROR)

\* mutant: hd_ratio is computed ahead of the layout check
CheckStep_after_ratio(e) ==
    /\ entry = e /\ pc = "check"
    /\ hd_ratio' = IF img.width.hi = 0 THEN hd_ratio_of(img.width.lo) ELSE hd_ratio
    /\ \/ /\ LayoutCheck(img) = "accept"
          /\ pc' = "alloc" /\ result' = result
       \/ /\ LayoutCheck(img) = "reject"
          /\ pc' = "done" /\ result' = LayoutErrorOf(img)
       \/ /\ LayoutCheck(img) = "overflow"
          /\ \/ pc' = "done" /\ result' = Panicked
             \/ /\ LayoutCheckWrapped(img) = "accept"
                /\ pc' = "alloc" /\ result' = result
             \/ /\ LayoutCheckWrapped(img) = "reject"
                /\ pc' = "done" /\ result' = LayoutErrorOf(img)
    /\ log' = log \o <<"ratio", "check">>
    /\ UNCHANGED << entry, input_file, img, k, output_img, areas, right, left,
                    out_file, reapplied, applied, calls, sc_vars, app_vars >>

\* if img.width() != img.height() * 2 { return Err(..) }
\* with overflow checks the overflowing product panics, without them it wraps
CheckStep(e) ==
    /\ entry = e /\ pc = "check"
    /\ \/ /\ LayoutCheck(img) = "accept"
          /\ pc' = "ratio" /\ result' = result
       \/ /\ LayoutCheck(img) = "reject"
          /\ pc' = "done" /\ result' = LayoutErrorOf(img)
       \/ /\ LayoutCheck(img) = "overflow"
          /\ \/ pc' = "done" /\ result' = Panicked
             \/ /\ LayoutCheckWrapped(img) = "accept"
                /\ pc' = "ratio" /\ result' = result
             \/ /\ LayoutCheckWrapped(img) = "reject"
                /\ pc' = "done" /\ result' = LayoutErrorOf(img)
    /\ log' = Append(log, "check")
    /\ UNCHANGED << entry, input_file, img, k, hd_ratio, output_img, areas, right, left,
                    out_file, reapplied, applied, calls, sc_vars, app_vars >>

\* let hd_ratio = img.width() as f32 / 64.0
RatioStep(e) ==
    /\ entry = e /\ pc = "ratio"
    /\ hd_ratio' = hd_ratio_of(Nat32(img.width))
    /\ pc' = "alloc"
    /\ log' = Append(log, "ratio")
    /\ UNCHANGED << entry, input_file, img, k, output_img, areas, right, left,
                    result, out_file, reapplied, applied, calls, sc_vars, app_vars >>

\* mutant: the canvas is allocated with the 2:1 shape of the input
AllocStep_input_height(e) ==
    /\ entry = e /\ pc = "alloc"
    /\ output_img' = NewImageBuffer(Nat32(img.width), Nat32(img.width) \div 2)
    /\ pc' = "copy"
    /\ log' = Append(log, "alloc")
    /\ UNCHANGED << entry, input_file, img, k, hd_ratio, areas, right, left,
                    result, out_file, reapplied, applied, calls, sc_vars, app_vars >>

\* let mut output_img = ImageBuffer::new(img.width(), img.width())
AllocStep(e) ==
    /\ entry = e /\ pc = "alloc"
    /\ output_img' = NewImageBuffer(Nat32(img.width), Nat32(img.width))
    /\ pc' = "copy"
    /\ log' = Append(log, "alloc")
    /\ UNCHANGED << entry, input_file, img, k, hd_ratio, areas, right, left,
                    result, out_file, reapplied, applied, calls, sc_vars, app_vars >>

\* the copy loop over the whole input
CopyStep(e) ==
    /\ entry = e /\ pc = "copy"
    /\ output_img' = CopyBase(output_img, img)
    /\ pc' = "scale"
    /\ log' = Append(log, "copy")
    /\ UNCHANGED << entry, input_file, img, k, hd_ratio, areas, right, left,
                    result, out_file, reapplied, applied, calls, sc_vars, app_vars >>

\* the 22 scale(..) statements
ScaleStep(e) ==
    /\ entry = e /\ pc = "scale"
    /\ areas' = ScaleAll(hd_ratio)
    /\ pc' = "crop" /\ k' = 0
    /\ log' = Append(log, "scale")
    /\ UNCHANGED << entry, input_file, img, hd_ratio, output_img, right, left,
                    result, out_file, reapplied, applied, calls, sc_vars, app_vars >>

\* the next img.view(..).to_image() statement; view panics outside the image
CropStep(e) ==
    /\ entry = e /\ pc = "crop"
    /\ LET part == CropOrder[k + 1]
       IN  IF ViewInBounds(img, areas.right[part])
           THEN /\ right' = [right EXCEPT ![part] = Crop(img, areas.right[part])]
                /\ k' = IF k + 1 = Len(CropOrder) THEN 0 ELSE k + 1
                /\ pc' = IF k + 1 = Len(CropOrder) THEN "flip" ELSE "crop"
                /\ result' = result
           ELSE /\ result' = Panicked /\ pc' = "done"
                /\ UNCHANGED << right, k >>
    /\ log' = Append(log, "crop")
    /\ UNCHANGED << entry, input_file, img, hd_ratio, output_img, areas, left,
                    out_file, reapplied, applied, calls, sc_vars, app_vars >>

\* mutant: the patch is a window on the input and the flip runs in place
FlipStep_in_place(e) ==
    /\ entry = e /\ pc = "flip"
    /\ LET part == FlipOrder[k + 1]
           a == areas.right[part]
       IN  /\ left' = [left EXCEPT ![part] = flip_horizontal(right[part])]
           /\ img' = [img EXCEPT !.px = Grid(Nat32(img.width), Len(img.px), LAMBDA x, y :
                        IF a[1] <= x /\ x < a[3] /\ a[2] <= y /\ y < a[4]
                        THEN At(img.px, a[1] + a[3] - 1 - x, y)
                        ELSE At(img.px, x, y))]
    /\ k' = IF k + 1 = Len(FlipOrder) THEN 0 ELSE k + 1
    /\ pc' = IF k + 1 = Len(FlipOrder) THEN "overlay" ELSE "flip"
    /\ log' = Append(log, "flip")
    /\ UNCHANGED << entry, input_file, hd_ratio, output_img, areas, right,
                    result, out_file, reapplied, applied, calls, sc_vars, app_vars >>

\* the next imageops::flip_horizontal statement
FlipStep(e) ==
    /\ entry = e /\ pc = "flip"
    /\ LET part == FlipOrder[k + 1]
       IN  left' = [left EXCEPT ![part] = flip_horizontal(right[part])]
    /\ k' = IF k + 1 = Len(FlipOrder) THEN 0 ELSE k + 1
    /\ pc' = IF k + 1 = Len(FlipOrder) THEN "overlay" ELSE "flip"
    /\ log' = Append(log, "flip")
    /\ UNCHANGED << entry, input_file, img, hd_ratio, output_img, areas, right,
                    result, out_file, reapplied, applied, calls, sc_vars, app_vars >>

\* mutant: the body moves on while the last paste is still to run
OverlayStep_early_exit(e, last) ==
    /\ entry = e /\ pc = "overlay"
    /\ LET part == OverlayOrder[k + 1]
       IN  /\ output_img' = overlay(output_img, left[part],
                                    areas.left[part][1], areas.left[part][2])
           /\ applied' = applied \cup {part}
    /\ k' = IF k + 2 >= Len(OverlayOrder) THEN 0 ELSE k + 1
    /\ pc' = IF k + 2 >= Len(OverlayOrder) THEN last ELSE "overlay"
    /\ log' = Append(log, "overlay")
    /\ UNCHANGED << entry, input_file, img, hd_ratio, areas, right, left,
                    result, out_file, reapplied, calls, sc_vars, app_vars >>

\* the next imageops::overlay statement
OverlayStep(e, last) ==
    /\ entry = e /\ pc = "overlay"
    /\ LET part == OverlayOrder[k + 1]
       IN  /\ output_img' = overlay(output_img, left[part],
                                    areas.left[part][1], areas.left[part][2])
           /\ applied' = applied \cup {part}
    /\ k' = IF k + 1 = Len(OverlayOrder) THEN 0 ELSE k + 1
    /\ pc' = IF k + 1 = Len(OverlayOrder) THEN last ELSE "overlay"
    /\ log' = Append(log, "overlay")
    /\ UNCHANGED << entry, input_file, img, hd_ratio, areas, right, left,
                    result, out_file, reapplied, calls, sc_vars, app_vars >>

(***************************************************************************)
(* single2double_image(img: &DynamicImage) -> Result<DynamicImage, String> *)
(***************************************************************************)
single2double_image_check == CheckStep("image")

single2double_image_ratio == RatioStep("image")

single2double_image_alloc == AllocStep("image")

single2double_image_copy == CopyStep("image")

single2double_image_scale == ScaleStep("image")

single2double_image_crop == CropStep("image")

single2double_image_flip == FlipStep("image")

single2double_image_overlay == OverlayStep("image", "return")

\* Ok(DynamicImage::ImageRgba8(output_img))
single2double_image_return ==
    /\ entry = "image" /\ pc = "return"
    /\ result' = Ok(output_img)
    /\ pc' = "done"
    /\ log' = Append(log, "return")
    /\ UNCHANGED << entry, input_file, img, k, hd_ratio, output_img, areas, right, left,
                    out_file, reapplied, applied, calls, sc_vars, app_vars >>

\* the caller hands the atlas it was given back to single2double_image
Reapply ==
    /\ entry = "image" /\ pc = "done" /\ result.kind = "Ok" /\ ~reapplied
    /\ img' = [width |-> U32Of(result.atlas.width), height |-> U32Of(result.atlas.height),
               px |-> result.atlas.px]
    /\ reapplied' = TRUE
    /\ pc' = "check" /\ k' = 0 /\ hd_ratio' = 0
    /\ output_img' = NoBuffer /\ areas' = NoAreas
    /\ right' = NoPatches /\ left' = NoPatches
    /\ result' = NoResult
    /\ log' = << >> /\ applied' = {}
    /\ UNCHANGED << entry, input_file, out_file, calls, sc_vars, app_vars >>

\* the value single2double_image computes once the check has accepted
RECURSIVE OverlayFirst(_, _, _, _)
OverlayFirst(out, lefts, ar, n) ==
    IF n = 0 THEN out
    ELSE LET part == OverlayOrder[n]
         IN  overlay(OverlayFirst(out, lefts, ar, n - 1), lefts[part],
                     ar.left[part][1], ar.left[part][2])

Converted(image) ==
    LET w == Nat32(image.width)
        ar == ScaleAll(hd_ratio_of(w))
        lefts == [p \in Parts |-> flip_horizontal(Crop(image, ar.right[p]))]
    IN  OverlayFirst(CopyBase(NewImageBuffer(w, w), image), lefts, ar, Len(OverlayOrder))

(***************************************************************************)
(* single2double(input_path: &Path, output_path: &Path) -> Result<(), String> *)
(***************************************************************************)
\* image::open(input_path).map_err(..)?
single2double_open ==
    /\ entry = "path" /\ pc = "open"
    /\ IF input_file.readable
       THEN img' = input_file.image /\ pc' = "check" /\ result' = result
       ELSE img' = img /\ pc' = "done" /\ result' = Err(OPEN_ERROR)
    /\ log' = Append(log, "open")
    /\ UNCHANGED << entry, input_file, k, hd_ratio, output_img, areas, right, left,
                    out_file, reapplied, applied, calls, sc_vars, app_vars >>

single2double_check == CheckStep("path")

single2double_ratio == RatioStep("path")

single2double_alloc == AllocStep("path")

single2double_copy == CopyStep("path")

single2double_scale == ScaleStep("path")

single2double_crop == CropStep("path")

single2double_flip == FlipStep("path")

\* mutant: the second copy of the body has lost its last paste
single2double_overlay_drifted == OverlayStep_early_exit("path", "save")

single2double_overlay == OverlayStep("path", "save")

\* output_img.save(output_path).map_err(..)?; Ok(())
single2double_save ==
    /\ entry = "path" /\ pc = "save"
    /\ \/ /\ out_file' = [exists |-> TRUE, image |-> output_img]
          /\ result' = Ok(NoBuffer)
       \/ /\ out_file' \in { out_file, PartialOutFile }
          /\ result' = Err(SAVE_ERROR)
    /\ pc' = "done"
    /\ log' = Append(log, "save")
    /\ UNCHANGED << entry, input_file, img, k, hd_ratio, output_img, areas, right, left,
                    reapplied, applied, calls, sc_vars, app_vars >>

Next ==
    \/ single2double_image_check
    \/ single2double_image_ratio
    \/ single2double_image_alloc
    \/ single2double_image_copy
    \/ single2double_image_scale
    \/ single2double_image_crop
    \/ single2double_image_flip
    \/ single2double_image_overlay
    \/ single2double_image_return
    \/ Reapply
    \/ single2double_open
    \/ single2double_check
    \/ single2double_ratio
    \/ single2double_alloc
    \/ single2double_copy
    \/ single2double_scale
    \/ single2double_crop
    \/ single2double_flip
    \/ single2double_overlay
    \/ single2double_save

Spec == Init /\ [][Next]_vars

(***************************************************************************)
(* The scaler on its own: hd_ratio from a width, then scale_rect           *)
(***************************************************************************)
CanonicalRects == { RightRange[p] : p \in Parts } \cup { LeftRange[p] : p \in Parts }

\* widths of images too large to enumerate pixel by pixel
LargeWidths == { 2581120, 2581126 }

ScaleWidths == (0 .. MaxScaleWidth) \cup LargeWidths

ScaleInit ==
    /\ ConverterIdle /\ AppIdle
    /\ sc_pc = "ratio" /\ sc_width \in ScaleWidths /\ sc_ratio = 0
    /\ sc_rect = ZeroRect /\ sc_out = ZeroRect /\ sc_areas = NoAreas

\* let hd_ratio = img.width() as f32 / 64.0
ScalerRatio ==
    /\ sc_pc = "ratio"
    /\ sc_ratio' = hd_ratio_of(sc_width)
    /\ sc_pc' = "scale"
    /\ UNCHANGED << sc_width, sc_rect, sc_out, sc_areas, conv_vars, app_vars >>

\* scale(rect) for one rectangle of the region table
ScalerScale ==
    /\ sc_pc \in {"scale", "scaled"}
    /\ \E rect \in CanonicalRects :
          /\ sc_rect' = rect
          /\ sc_out' = scale_rect(rect, sc_ratio)
    /\ sc_pc' = "scaled"
    /\ UNCHANGED << sc_width, sc_ratio, sc_areas, conv_vars, app_vars >>

\* the 22 scale(..) statements together
ScalerScaleAll ==
    /\ sc_pc \in {"scale", "scaled"}
    /\ sc_areas' = ScaleAll(sc_ratio)
    /\ sc_pc' = "scaled"
    /\ UNCHANGED << sc_width, sc_ratio, sc_rect, sc_out, conv_vars, app_vars >>

ScaleNext == ScalerRatio \/ ScalerScale \/ ScalerScaleAll

ScaleSpec == ScaleInit /\ [][ScaleNext]_vars

(***************************************************************************)
(* The conversion with its overlay statements taken in any order           *)
(***************************************************************************)
\* widths beyond 2 * MaxPermHeight at which every scaled coordinate is exact
PermExactWidths == { 32, 64 }

PermInputs ==
    { MakeImage(2 * h, h, pat) : h \in 0 .. MaxPermHeight, pat \in {"coords", "mixed"} }
        \cup { MakeImage(w, w \div 2, "mixed") : w \in PermExactWidths }

PermInit ==
    /\ entry = "image" /\ input_file = NoFile /\ img \in PermInputs /\ pc = "check"
    /\ k = 0 /\ hd_ratio = 0
    /\ output_img = NoBuffer /\ areas = NoAreas
    /\ right = NoPatches /\ left = NoPatches
    /\ result = NoResult /\ out_file = NoOutFile /\ reapplied = FALSE
    /\ log = << >> /\ applied = {} /\ calls = NoCalls
    /\ ScalerIdle /\ AppIdle

\* one of the imageops::overlay statements that has not run yet
OverlayAnyOrder ==
    /\ entry = "image" /\ pc = "overlay"
    /\ \E part \in Parts \ applied :
          /\ output_img' = overlay(output_img, left[part],
                                   areas.left[part][1], areas.left[part][2])
          /\ applied' = applied \cup {part}
          /\ pc' = IF applied \cup {part} = Parts THEN "return" ELSE "overlay"
    /\ k' = IF k + 1 = Len(OverlayOrder) THEN 0 ELSE k + 1
    /\ log' = Append(log, "overlay")
    /\ UNCHANGED << entry, input_file, img, hd_ratio, areas, right, left,
                    result, out_file, reapplied, calls, sc_vars, app_vars >>

PermNext ==
    \/ single2double_image_check
    \/ single2double_image_ratio
    \/ single2double_image_alloc
    \/ single2double_image_copy
    \/ single2double_image_scale
    \/ single2double_image_crop
    \/ single2double_image_flip
    \/ OverlayAnyOrder
    \/ single2double_image_return

PermSpec == PermInit /\ [][PermNext]_vars

(***************************************************************************)
(* Several threads calling single2double_image at the same time            *)
(***************************************************************************)
\* the images the threads convert: three single-layer ones and a square one
ConcInputs ==
    { MakeImage(16, 8, "coords"), MakeImage(16, 8, "mixed"),
      MakeImage(10, 5, "coords"), MakeImage(5, 5, "coords") }

ConcInit == ConverterIdle /\ ScalerIdle /\ AppIdle

\* thread t moves on with the locals c
Moves(t, c) ==
    /\ calls' = [calls EXCEPT ![t] = c]
    /\ UNCHANGED << single_vars, sc_vars, app_vars >>

\* thread t calls single2double_image(&img), for the first time or after an
\* earlier call of its own has returned
ConcCall(t) ==
    /\ calls[t].pc \in {"idle", "done"} /\ calls[t].n < MaxCalls
    /\ \E i \in ConcInputs :
          Moves(t, [IdleCall EXCEPT !.img = i, !.pc = "check", !.n = calls[t].n + 1])

\* if img.width() != img.height() * 2 { return Err(..) }
ConcCheck(t) ==
    /\ calls[t].pc = "check"
    /\ LET c == calls[t]
           verdicts == IF LayoutCheck(c.img) = "overflow"
                       THEN {"panic", LayoutCheckWrapped(c.img)}
                       ELSE {LayoutCheck(c.img)}
       IN  \E v \in verdicts :
              Moves(t, IF v = "accept" THEN [c EXCEPT !.pc = "ratio"]
                       ELSE IF v = "reject"
                            THEN [c EXCEPT !.pc = "done", !.result = LayoutErrorOf(c.img)]
                            ELSE [c EXCEPT !.pc = "done", !.result = Panicked])

\* let hd_ratio = img.width() as f32 / 64.0
ConcRatio(t) ==
    /\ calls[t].pc = "ratio"
    /\ Moves(t, [calls[t] EXCEPT !.hd_ratio = hd_ratio_of(Nat32(calls[t].img.width)),
                                 !.pc = "alloc"])

\* let mut output_img = ImageBuffer::new(img.width(), img.width())
ConcAlloc(t) ==
    /\ calls[t].pc = "alloc"
    /\ LET w == Nat32(calls[t].img.width)
       IN  Moves(t, [calls[t] EXCEPT !.output_img = NewImageBuffer(w, w), !.pc = "copy"])

\* the copy loop over the whole input
ConcCopy(t) ==
    /\ calls[t].pc = "copy"
    /\ Moves(t, [calls[t] EXCEPT !.output_img = CopyBase(calls[t].output_img, calls[t].img),
                                 !.pc = "scale"])

\* mutant: the scaled rectangles live in one table that all threads use
ConcScale_shared_table(t) ==
    /\ calls[t].pc = "scale"
    /\ calls' = [u \in Threads |->
                    IF u = t
                    THEN [calls[t] EXCEPT !.areas = ScaleAll(calls[t].hd_ratio),
                                          !.pc = "crop", !.k = 0]
                    ELSE [calls[u] EXCEPT !.areas = ScaleAll(calls[t].hd_ratio)]]
    /\ UNCHANGED << single_vars, sc_vars, app_vars >>

\* the 22 scale(..) statements: the scaled rectangles are locals of the call
ConcScale(t) ==
    /\ calls[t].pc = "scale"
    /\ Moves(t, [calls[t] EXCEPT !.areas = ScaleAll(calls[t].hd_ratio),
                                 !.pc = "crop", !.k = 0])

\* the next img.view(..).to_image() statement
ConcCrop(t) ==
    /\ calls[t].pc = "crop"
    /\ LET c == calls[t]
           part == CropOrder[c.k + 1]
           more == c.k + 1 < Len(CropOrder)
       IN  Moves(t, IF ViewInBounds(c.img, c.areas.right[part])
                    THEN [c EXCEPT !.right[part] = Crop(c.img, c.areas.right[part]),
                                   !.k = IF more THEN c.k + 1 ELSE 0,
                                   !.pc = IF more THEN "crop" ELSE "flip"]
                    ELSE [c EXCEPT !.result = Panicked, !.pc = "done"])

\* the next imageops::flip_horizontal statement
ConcFlip(t) ==
    /\ calls[t].pc = "flip"
    /\ LET c == calls[t]
           part == FlipOrder[c.k + 1]
           more == c.k + 1 < Len(FlipOrder)
       IN  Moves(t, [c EXCEPT !.left[part] = flip_horizontal(c.right[part]),
                              !.k = IF more THEN c.k + 1 ELSE 0,
                              !.pc = IF more THEN "flip" ELSE "overlay"])

\* the next imageops::overlay statement
ConcOverlay(t) ==
    /\ calls[t].pc = "overlay"
    /\ LET c == calls[t]
           part == OverlayOrder[c.k + 1]
           more == c.k + 1 < Len(OverlayOrder)
       IN  Moves(t, [c EXCEPT !.output_img = overlay(c.output_img, c.left[part],
                                                    c.areas.left[part][1],
                                                    c.areas.left[part][2]),
                              !.k = IF more THEN c.k + 1 ELSE 0,
                              !.pc = IF more THEN "overlay" ELSE "return"])

\* Ok(DynamicImage::ImageRgba8(output_img))
ConcReturn(t) ==
    /\ calls[t].pc = "return"
    /\ Moves(t, [calls[t] EXCEPT !.result = Ok(calls[t].output_img), !.pc = "done"])

ConcNext ==
    \E t \in Threads :
        \/ ConcCall(t)
        \/ ConcCheck(t)
        \/ ConcRatio(t)
        \/ ConcAlloc(t)
        \/ ConcCopy(t)
        \/ ConcScale(t)
        \/ ConcCrop(t)
        \/ ConcFlip(t)
        \/ ConcOverlay(t)
        \/ ConcReturn(t)

ConcSpec == ConcInit /\ [][ConcNext]_vars

(***************************************************************************)
(* Texture::load_from_file and Texture::load_texture                       *)
(***************************************************************************)
CONVERT_ERROR == "Failed to convert single-layer to double-layer: "

DECODE_ERROR == "File::open / image::load error"

TEXTURE_ERROR == "TextureCreationError"

LoadOk == [kind |-> "Ok", msg |-> "", cause |-> ""]

\* an error whose text is msg followed by the text of cause
LoadErr(msg, cause) == [kind |-> "Err", msg |-> msg, cause |-> cause]

LoadPanicked == [kind |-> "panic", msg |-> "", cause |-> ""]

\* what a call single2double_image(image) can return
single2double_image(image) ==
    LET verdict == LayoutCheck(image)
    IN  IF verdict = "accept" THEN { Ok(Converted(image)) }
        ELSE IF verdict = "reject" THEN { LayoutErrorOf(image) }
        ELSE { Panicked }
                \cup { IF LayoutCheckWrapped(image) = "accept"
                       THEN Ok(Converted(image)) ELSE LayoutErrorOf(image) }

TextureGuard_tall(image) ==
    IF Nat32(image.height) = Nat32(image.width) * 2 THEN "accept" ELSE "reject"

\* if width == height * 2, in u32
TextureGuard(image) == LayoutCheck(image)

\* image.clone() of an Rgba8 image, and to_rgba8() of it
CloneImage(image) ==
    [width |-> Nat32(image.width), height |-> Nat32(image.height), px |-> image.px]

\* RawImage2d::from_raw_rgba_reversed(raw, dimensions) and Texture2d::new: the
\* rows are stored bottom row first
UploadTexture(buffer) ==
    [width |-> buffer.width, height |-> buffer.height,
     px |-> Grid(buffer.width, buffer.height,
                 LAMBDA x, y : At(buffer.px, x, buffer.height - 1 - y))]

\* the skin files load_from_file is given
TextureFiles == FileInputs

LoadInit ==
    /\ ConverterIdle /\ ScalerIdle /\ RenderIdle /\ ModelIdle
    /\ lt_pc = "open" /\ lt_file \in TextureFiles /\ lt_image = NoImage
    /\ lt_local = NoBuffer /\ lt_converted = FALSE
    /\ lt_texture = NoBuffer /\ lt_result = NoLoad

\* File::open(path)?; image::load(reader, ImageFormat::Png)?.to_rgba8()
LoadFromFile ==
    /\ lt_pc = "open"
    /\ IF lt_file.readable
       THEN lt_image' = lt_file.image /\ lt_pc' = "guard" /\ lt_result' = lt_result
       ELSE lt_image' = lt_image /\ lt_pc' = "done"
            /\ lt_result' = LoadErr(DECODE_ERROR, "")
    /\ UNCHANGED << lt_file, lt_local, lt_converted, lt_texture,
                    conv_vars, sc_vars, rn_vars, md_vars >>

\* let image = if width == height * 2 { match single2double_image(image) {..} }
\*             else { image.clone() }
LoadTextureConvert ==
    /\ lt_pc = "guard"
    /\ \E verdict \in IF TextureGuard(lt_image) = "overflow"
                      THEN { "panic", LayoutCheckWrapped(lt_image) }
                      ELSE { TextureGuard(lt_image) } :
         IF verdict = "panic"
         THEN /\ lt_pc' = "done" /\ lt_result' = LoadPanicked
              /\ UNCHANGED << lt_local, lt_converted >>
         ELSE IF verdict = "accept"
         THEN /\ lt_converted' = TRUE
              /\ \E r \in single2double_image(lt_image) :
                   IF r.kind = "Ok"
                   THEN lt_local' = r.atlas /\ lt_pc' = "upload" /\ lt_result' = lt_result
                   ELSE IF r.kind = "Err"
                   THEN lt_local' = lt_local /\ lt_pc' = "done"
                        /\ lt_result' = LoadErr(CONVERT_ERROR, r.msg)
                   ELSE lt_local' = lt_local /\ lt_pc' = "done"
                        /\ lt_result' = LoadPanicked
         ELSE /\ lt_local' = CloneImage(lt_image) /\ lt_pc' = "upload"
              /\ UNCHANGED << lt_converted, lt_result >>
    /\ UNCHANGED << lt_file, lt_image, lt_texture,
                    conv_vars, sc_vars, rn_vars, md_vars >>

\* Texture2d::new(display, RawImage2d::from_raw_rgba_reversed(..))?; Ok(Texture { texture })
LoadTextureUpload ==
    /\ lt_pc = "upload"
    /\ \/ lt_texture' = UploadTexture(lt_local) /\ lt_result' = LoadOk
       \/ lt_texture' = lt_texture /\ lt_result' = LoadErr(TEXTURE_ERROR, "")
    /\ lt_pc' = "done"
    /\ UNCHANGED << lt_file, lt_image, lt_local, lt_converted,
                    conv_vars, sc_vars, rn_vars, md_vars >>

LoadNext ==
    \/ LoadFromFile
    \/ LoadTextureConvert
    \/ LoadTextureUpload

LoadSpec == LoadInit /\ [][LoadNext]_vars

(***************************************************************************)
(* Renderer::render and Renderer::render_to_image (renderer.rs and lib.rs) *)
(***************************************************************************)
NO_SKIN_ERROR == "No skin texture available"

TEXTURE_CREATION_ERROR == "Texture2d::empty error"

DEPTH_BUFFER_ERROR == "DepthRenderBuffer::new error"

FRAMEBUFFER_ERROR == "SimpleFrameBuffer::with_depth_buffer error"

DRAW_ERROR == "DrawError"

IMAGE_SAVE_ERROR == "save_with_format error"

\* Ok(img_buf) of render
RenderOk(image) == [kind |-> "Ok", msg |-> "", image |-> image]

\* Ok(()) of render_to_image
SavedOk == [kind |-> "Ok", msg |-> "", image |-> NoFrame]

RenderErr(msg) == [kind |-> "Err", msg |-> msg, image |-> NoFrame]

\* the render functions: of renderer.rs (a Character carries the skin) and of
\* lib.rs (the Renderer carries the skin and draws one vertex buffer)
RenderEntries == { "render", "render_to_image", "lib_render", "lib_render_to_image" }

ToImageEntries == { "render_to_image", "lib_render_to_image" }

\* the order of the draw_body_part calls of renderer.rs
BodyPartOrder == << "body", "head", "right_arm", "left_arm", "right_leg", "left_leg" >>

\* the framebuffer.draw calls of draw_body_part, in order
DrawsOfPart(part) == << << part, "main" >>, << part, "layer" >> >>

RECURSIVE DrawsFrom(_)
DrawsFrom(i) ==
    IF i > Len(BodyPartOrder) THEN << >>
    ELSE DrawsOfPart(BodyPartOrder[i]) \o DrawsFrom(i + 1)

\* the framebuffer.draw calls a render runs, in order
DrawList(e) ==
    IF e \in { "lib_render", "lib_render_to_image" } THEN << << "model", "vertices" >> >>
    ELSE DrawsFrom(1)

RenderTargets == { "render_texture", "depth_buffer", "framebuffer" }

\* the (width, height) arguments
RenderSizes == { << 0, 0 >>, << 1, 1 >>, << 64, 64 >>, << 800, 600 >>, << 65536, 65536 >> }

RenderInit ==
    /\ ConverterIdle /\ ScalerIdle /\ TextureIdle /\ ModelIdle
    /\ rn_entry \in RenderEntries /\ rn_skin \in BOOLEAN /\ rn_size \in RenderSizes
    /\ rn_targets = {} /\ rn_pc = "render_texture" /\ rn_drawn = << >>
    /\ rn_image = NoFrame /\ rn_result = NoRender /\ rn_file = FALSE

\* a statement `target = create(..)?` of render; an error returns through the
\* `?` of render and, in render_to_image, through the `?` on the call
CreateTarget(at, target, error, next) ==
    /\ rn_pc = at
    /\ \/ rn_targets' = rn_targets \cup { target } /\ rn_pc' = next
          /\ rn_result' = rn_result
       \/ rn_targets' = rn_targets /\ rn_pc' = "done"
          /\ rn_result' = RenderErr(error)
    /\ UNCHANGED << rn_entry, rn_skin, rn_size, rn_drawn, rn_image, rn_file,
                    conv_vars, sc_vars, lt_vars, md_vars >>

\* let render_texture = Texture2d::empty(&self.display, width, height)?
RenderTexture ==
    CreateTarget("render_texture", "render_texture", TEXTURE_CREATION_ERROR, "depth_buffer")

\* let depth_buffer = DepthRenderBuffer::new(..)?
RenderDepthBuffer ==
    CreateTarget("depth_buffer", "depth_buffer", DEPTH_BUFFER_ERROR, "framebuffer")

\* let mut framebuffer = SimpleFrameBuffer::with_depth_buffer(..)?; clear_color_and_depth
RenderFrameBuffer ==
    CreateTarget("framebuffer", "framebuffer", FRAMEBUFFER_ERROR, "skin")

RenderSkin_unchecked ==
    /\ rn_pc = "skin"
    /\ rn_pc' = "draw"
    /\ UNCHANGED << rn_entry, rn_skin, rn_size, rn_targets, rn_drawn, rn_image, rn_result,
                    rn_file, conv_vars, sc_vars, lt_vars, md_vars >>

\* let skin_texture = <skin>.as_ref().ok_or("No skin texture available")?
RenderSkin ==
    /\ rn_pc = "skin"
    /\ IF rn_skin
       THEN rn_pc' = "draw" /\ rn_result' = rn_result
       ELSE rn_pc' = "done" /\ rn_result' = RenderErr(NO_SKIN_ERROR)
    /\ UNCHANGED << rn_entry, rn_skin, rn_size, rn_targets, rn_drawn, rn_image, rn_file,
                    conv_vars, sc_vars, lt_vars, md_vars >>

\* framebuffer.draw(..)?: the next draw call of the render
RenderDraw ==
    /\ rn_pc = "draw"
    /\ Len(rn_drawn) < Len(DrawList(rn_entry))
    /\ \/ /\ rn_drawn' = Append(rn_drawn, DrawList(rn_entry)[Len(rn_drawn) + 1])
          /\ rn_pc' = IF Len(rn_drawn) + 1 = Len(DrawList(rn_entry)) THEN "read" ELSE "draw"
          /\ rn_result' = rn_result
       \/ /\ rn_drawn' = rn_drawn /\ rn_pc' = "done"
          /\ rn_result' = RenderErr(DRAW_ERROR)
    /\ UNCHANGED << rn_entry, rn_skin, rn_size, rn_targets, rn_image, rn_file,
                    conv_vars, sc_vars, lt_vars, md_vars >>

\* render_texture.read() into ImageBuffer::new(width, height); Ok(img_buf)
RenderRead ==
    /\ rn_pc = "read"
    /\ rn_image' = rn_size
    /\ IF rn_entry \in ToImageEntries
       THEN rn_pc' = "save" /\ rn_result' = rn_result
       ELSE rn_pc' = "done" /\ rn_result' = RenderOk(rn_size)
    /\ UNCHANGED << rn_entry, rn_skin, rn_size, rn_targets, rn_drawn, rn_file,
                    conv_vars, sc_vars, lt_vars, md_vars >>

\* image_buffer.save_with_format(filename, ImageFormat::Png)?; Ok(())
RenderSave ==
    /\ rn_pc = "save"
    /\ \/ rn_file' = TRUE /\ rn_result' = SavedOk
       \/ rn_file' \in BOOLEAN /\ rn_result' = RenderErr(IMAGE_SAVE_ERROR)
    /\ rn_pc' = "done"
    /\ UNCHANGED << rn_entry, rn_skin, rn_size, rn_targets, rn_drawn, rn_image,
                    conv_vars, sc_vars, lt_vars, md_vars >>

RenderNext ==
    \/ RenderTexture
    \/ RenderDepthBuffer
    \/ RenderFrameBuffer
    \/ RenderSkin
    \/ RenderDraw
    \/ RenderRead
    \/ RenderSave

RenderSpec == RenderInit /\ [][RenderNext]_vars

(***************************************************************************)
(* Model::load_from_obj                                                    *)
(***************************************************************************)
MISSING_PART_ERROR == "Missing model part: "

LOAD_OBJ_ERROR == "tobj::LoadError"

VERTEX_BUFFER_ERROR == "vertex::BufferCreationError"

ModelOk(model) == [kind |-> "Ok", msg |-> "", part |-> "", model |-> model]

\* an error whose text is msg followed by part
ModelErr(msg, part) == [kind |-> "Err", msg |-> msg, part |-> part, model |-> NoParts]

ExtractOrder_limbs_first ==
    << "Right Arm", "Right Arm Layer", "Left Arm", "Left Arm Layer",
       "Right Leg", "Right Leg Layer", "Left Leg", "Left Leg Layer",
       "Head", "Hat Layer", "Body", "Body Layer" >>

\* the extract_part calls of the Model { .. } expression, in evaluation order
ExtractOrder ==
    << "Head", "Hat Layer", "Body", "Body Layer",
       "Right Arm", "Right Arm Layer", "Left Arm", "Left Arm Layer",
       "Right Leg", "Right Leg Layer", "Left Leg", "Left Leg Layer" >>

\* an object of the file: its name, the floats of mesh.positions and the entries
\* of mesh.indices
Object(name, positions, indices) ==
    [name |-> name, positions |-> positions, indices |-> indices]

\* a triangle
Mesh(name) == Object(name, 9, 3)

\* the twelve names in an order of the file that is not the order of extraction
PlayerOrder ==
    << "Body", "Body Layer", "Head", "Hat Layer",
       "Right Arm", "Right Arm Layer", "Left Arm", "Left Arm Layer",
       "Right Leg", "Right Leg Layer", "Left Leg", "Left Leg Layer" >>

Reversed(seq) == [i \in 1 .. Len(seq) |-> seq[Len(seq) + 1 - i]]

\* how an object can fail to be a mesh
Defects == { "removed", "no_positions", "no_indices", "emptied_later", "doubled" }

\* the objects of a file with the order of names `order`, where the objects
\* named in `bad` have the defect `how`
ObjectsWith(order, bad, how) ==
    LET keep(name) == name \notin bad \/ how # "removed"
        object(name) ==
            IF name \notin bad \/ how \in { "emptied_later", "doubled" } THEN Mesh(name)
            ELSE IF how = "no_positions" THEN Object(name, 0, 3)
            ELSE Object(name, 9, 0)
        kept == SelectSeq(order, keep)
        again == SelectSeq(order, LAMBDA name :
                             name \in bad /\ how \in { "emptied_later", "doubled" })
    IN  [i \in 1 .. Len(kept) |-> object(kept[i])]
            \o [i \in 1 .. Len(again) |->
                    IF how = "doubled" THEN Mesh(again[i]) ELSE Object(again[i], 0, 0)]
            \o << Mesh("Cape") >>

Range(seq) == { seq[i] : i \in 1 .. Len(seq) }

\* the files load_from_obj is given: unreadable, without objects, and the twelve
\* parts and one more object, with up to MaxDefects of the parts removed, without
\* positions, without indices, or followed by a second object of the same name
ObjFiles ==
    { NoObj, [loadable |-> TRUE, objects |-> << >>] }
        \cup { [loadable |-> TRUE, objects |-> ObjectsWith(order, bad, how)] :
                 order \in { PlayerOrder, Reversed(PlayerOrder) },
                 bad \in { b \in SUBSET Range(PlayerOrder) : Cardinality(b) <= MaxDefects },
                 how \in Defects }

ModelInit ==
    /\ ConverterIdle /\ ScalerIdle /\ TextureIdle /\ RenderIdle
    /\ md_pc = "load" /\ md_obj \in ObjFiles /\ md_i = 0
    /\ md_parts = NoParts /\ md_k = 0 /\ md_result = NoModel

\* let (models, _materials) = load_obj(path, &GPU_LOAD_OPTIONS)?
ModelLoadObj ==
    /\ md_pc = "load"
    /\ IF md_obj.loadable
       THEN /\ md_pc' = IF Len(md_obj.objects) = 0 THEN "extract" ELSE "visit"
            /\ md_result' = md_result
       ELSE md_pc' = "done" /\ md_result' = ModelErr(LOAD_OBJ_ERROR, "")
    /\ UNCHANGED << md_obj, md_i, md_parts, md_k,
                    conv_vars, sc_vars, lt_vars, rn_vars >>

\* parts.insert(model.name, model_part): a later object replaces an earlier one
Insert(parts, name, i) ==
    [n \in DOMAIN parts \cup { name } |-> IF n = name THEN i ELSE parts[n]]

\* one turn of `for model in models`
ModelVisit ==
    /\ md_pc = "visit"
    /\ LET model == md_obj.objects[md_i + 1]
           vertices_data == IF model.positions = 0 THEN 0 ELSE model.indices
           next == IF md_i + 1 = Len(md_obj.objects) THEN "extract" ELSE "visit"
       IN  /\ md_i' = md_i + 1
           /\ IF vertices_data = 0
              THEN md_pc' = next /\ UNCHANGED << md_parts, md_result >>
              ELSE \/ /\ md_parts' = Insert(md_parts, model.name, md_i + 1)
                      /\ md_pc' = next /\ md_result' = md_result
                   \/ /\ md_parts' = md_parts /\ md_pc' = "done"
                      /\ md_result' = ModelErr(VERTEX_BUFFER_ERROR, "")
    /\ UNCHANGED << md_obj, md_k, conv_vars, sc_vars, lt_vars, rn_vars >>

\* parts.remove(name)
Remove(parts, name) == [n \in DOMAIN parts \ { name } |-> parts[n]]

\* the next extract_part(&mut parts, name)? of the Model { .. } expression;
\* md_result.model holds the fields already evaluated
ModelExtract ==
    /\ md_pc = "extract"
    /\ LET name == ExtractOrder[md_k + 1]
       IN  IF name \in DOMAIN md_parts
           THEN /\ md_parts' = Remove(md_parts, name)
                /\ md_k' = md_k + 1
                /\ IF md_k + 1 = Len(ExtractOrder)
                   THEN /\ md_pc' = "done"
                        /\ md_result' =
                             ModelOk([n \in Range(ExtractOrder) |->
                                        IF n = name THEN md_parts[n]
                                        ELSE md_result.model[n]])
                   ELSE /\ md_pc' = "extract"
                        /\ md_result' =
                             [md_result EXCEPT !.model = Insert(@, name, md_parts[name])]
           ELSE /\ md_pc' = "done"
                /\ md_result' = ModelErr(MISSING_PART_ERROR, name)
                /\ UNCHANGED << md_parts, md_k >>
    /\ UNCHANGED << md_obj, md_i, conv_vars, sc_vars, lt_vars, rn_vars >>

ModelNext ==
    \/ ModelLoadObj
    \/ ModelVisit
    \/ ModelExtract

ModelSpec == ModelInit /\ [][ModelNext]_vars

(***************************************************************************)
(* Properties                                                              *)
(***************************************************************************)
\* width = 2 * height as mathematical integers
IsSingleLayer(image) ==
    LET m == MulTwoU32(image.height) IN ~m.overflow /\ image.width = m.val

\* floor(c * w / 64) in exact arithmetic
FloorScale(c, w) == (c * w) \div 64

FloorRect(rect, w) ==
    << FloorScale(rect[1], w), FloorScale(rect[2], w),
       FloorScale(rect[3], w), FloorScale(rect[4], w) >>

\* the call has returned Ok
Succeeded == pc = "done" /\ result.kind = "Ok"

\* C1 (as claimed): after a successful single2double_image on an input with
\* width = 2 * height, for every sub-face and every offset (i, j) in it, the
\* output pixel at (destX0 + (n-1-i), destY0 + j) equals the input pixel at
\* (srcX0 + i, srcY0 + j), whatever the alpha of the source pixel.
C1_MirrorSymmetry ==
    (entry = "image" /\ Succeeded /\ IsSingleLayer(img)) =>
        \A p \in Parts :
            LET src == FloorRect(RightRange[p], Nat32(img.width))
                dst == FloorRect(LeftRange[p], Nat32(img.width))
                n == src[3] - src[1]
            IN  \A i \in 0 .. (n - 1), j \in 0 .. (src[4] - src[2] - 1) :
                    At(result.atlas.px, dst[1] + (n - 1 - i), dst[2] + j)
                        = At(img.px, src[1] + i, src[2] + j)

\* C2: for every input with width w = 2h, once the base copy has run and
\* through every overlay write up to the return, every output pixel (x, y)
\* with x < w and y < h equals the input pixel (x, y).
C2_BasePreservation ==
    (pc \in {"scale", "crop", "flip", "overlay", "return", "save", "done"}
        /\ result.kind \in {"none", "Ok"} /\ IsSingleLayer(img)) =>
        /\ \A c \in Cells(Nat32(img.width), Nat32(img.height)) :
                At(output_img.px, c[1], c[2]) = At(img.px, c[1], c[2])
        /\ (entry = "image" /\ pc = "done") =>
                \A c \in Cells(Nat32(img.width), Nat32(img.height)) :
                    At(result.atlas.px, c[1], c[2]) = At(img.px, c[1], c[2])

\* C2 witness: a 64x32 conversion has returned and its overlays have written
\* below the base region
C2_Witness ==
    /\ entry = "image" /\ Succeeded /\ img.width = U32Of(64) /\ img.height = U32Of(32)
    /\ At(result.atlas.px, 40, 52) # Transparent
    /\ At(img.px, 40, 20) # Transparent

\* C3: for every input with width w = 2 * height, single2double_image never
\* fails and returns Ok with an atlas whose width and height are both w.
C3_ShapeInvariant ==
    (entry = "image" /\ IsSingleLayer(img)) =>
        /\ result.kind \in {"none", "Ok"}
        /\ pc = "done" =>
            /\ result.kind = "Ok"
            /\ result.atlas.width = Nat32(img.width)
            /\ result.atlas.height = Nat32(img.width)
            /\ Len(result.atlas.px) = Nat32(img.width)
            /\ \A y \in 1 .. Len(result.atlas.px) :
                    Len(result.atlas.px[y]) = Nat32(img.width)

\* C3 witness: a 34x17 input (not a multiple of 64) has been converted
C3_Witness ==
    /\ entry = "image" /\ Succeeded
    /\ img.width = U32Of(34) /\ img.height = U32Of(17)
    /\ result.atlas.width = 34

\* C4 (as claimed): for every input with width # 2 * height, both entry
\* points return an error and produce no output: the call never passes the
\* check, no atlas is returned and the output file is never written.
C4_ValidationInvariant ==
    (pc # "open" /\ ~IsSingleLayer(img)) =>
        /\ pc \in {"check", "done"}
        /\ pc = "done" => result.kind = "Err" /\ result.msg = LAYOUT_ERROR
        /\ ~out_file.exists

\* the check has decided to accept: the call went on past it
CheckAccepted ==
    \/ pc \in {"ratio", "alloc", "copy", "scale", "crop", "flip", "overlay", "return", "save"}
    \/ pc = "done" /\ result.kind = "Ok"
    \/ pc = "done" /\ result = Err(SAVE_ERROR)

\* the check has decided to reject
CheckRejected == pc = "done" /\ result = Err(LAYOUT_ERROR)

\* C5 (as claimed): the format check accepts iff width = height * 2 as
\* mathematical integers, for every pair of u32 width and height, including
\* heights whose doubling does not fit in 32 bits.
C5_CheckIffDouble ==
    (pc \notin {"open", "check"} /\ ~(pc = "done" /\ result = Err(OPEN_ERROR))) =>
        /\ IsSingleLayer(img) => CheckAccepted
        /\ ~IsSingleLayer(img) => CheckRejected

\* C6 (as claimed): single2double_image applied to any atlas with
\* width = height fails with the layout error.
C6_SquareRejected ==
    (entry = "image" /\ pc = "done" /\ img.width = img.height) =>
        result = Err(LAYOUT_ERROR)

\* C6 (amended): single2double_image applied to any atlas with
\* width = height > 0 fails with the layout error; in particular every
\* non-empty atlas a successful conversion returned is rejected when it is
\* converted again.
C6_NonEmptySquareRejected ==
    (entry = "image" /\ pc = "done" /\ img.width = img.height /\ img.width # U32Of(0)) =>
        result = Err(LAYOUT_ERROR)

\* C6 witness: the 64x64 atlas returned for a 64x32 input was converted again
\* and rejected
C6_Witness ==
    /\ entry = "image" /\ reapplied /\ pc = "done"
    /\ img.width = U32Of(64) /\ img.height = U32Of(64)
    /\ result = Err(LAYOUT_ERROR)

\* the 64x32 input of the base-scale scenario: opaque red in (40,20)-(44,32),
\* transparent black elsewhere
RedArmInput ==
    [width |-> U32Of(64), height |-> U32Of(32),
     px |-> [row \in 1 .. 32 |-> [col \in 1 .. 64 |->
                IF 40 <= col - 1 /\ col - 1 < 44 /\ 20 <= row - 1 /\ row - 1 < 32
                THEN <<255, 0, 0, 255>> ELSE <<0, 0, 0, 0>>]]]

\* C7: for the 64x32 red-arm input the output is 64x64, its pixels in
\* (40,52)-(44,64) are opaque red, its pixels in (20,20)-(24,32) are still
\* transparent, and every pixel in rows 0..31 equals the input pixel.
C7_BaseScaleScenario ==
    (entry = "image" /\ pc = "done" /\ img = RedArmInput) =>
        /\ result.kind = "Ok"
        /\ result.atlas.width = 64 /\ result.atlas.height = 64
        /\ \A x \in 40 .. 43, y \in 52 .. 63 : At(result.atlas.px, x, y) = <<255, 0, 0, 255>>
        /\ \A x \in 20 .. 23, y \in 20 .. 31 : At(result.atlas.px, x, y) = <<0, 0, 0, 0>>
        /\ \A x \in 0 .. 63, y \in 0 .. 31 : At(result.atlas.px, x, y) = At(img.px, x, y)

\* C7 witness: the conversion of the red-arm input has returned
C7_Witness == entry = "image" /\ Succeeded /\ img = RedArmInput

\* the 128x64 image is the exact 2x replication of a 64x32 image
IsUpscaled(image) ==
    /\ image.width = U32Of(128) /\ image.height = U32Of(64)
    /\ image.px = Upscale2Px(Downscale2Px(image.px, 128, 64), 64, 32)

\* the 64x32 image a 128x64 replicated image comes from
BaseOf(image) ==
    [width |-> U32Of(64), height |-> U32Of(32), px |-> Downscale2Px(image.px, 128, 64)]

\* C8: if a 128x64 input is the 2x pixel replication of a 64x32 input, its
\* conversion output is the 2x pixel replication of the conversion output of
\* the 64x32 input, and every scaled rectangle is the doubled rectangle of
\* the 64x32 conversion.
C8_ScaleEquivariance ==
    (entry = "image" /\ pc = "done" /\ IsUpscaled(img)) =>
        /\ result.kind = "Ok"
        /\ result.atlas.width = 128 /\ result.atlas.height = 128
        /\ result.atlas.px = Upscale2Px(Converted(BaseOf(img)).px, 64, 64)
        /\ \A p \in Parts, i \in 1 .. 4 :
              /\ areas.right[p][i] = 2 * ScaleAll(hd_ratio_of(64)).right[p][i]
              /\ areas.left[p][i] = 2 * ScaleAll(hd_ratio_of(64)).left[p][i]

\* C8 witness: a replicated 128x64 input with coloured transparent pixels has
\* been converted
C8_Witness ==
    /\ entry = "image" /\ Succeeded /\ IsUpscaled(img)
    /\ At(img.px, 82, 40)[4] = 0 /\ At(img.px, 82, 40)[1] # 0
    /\ At(result.atlas.px, 82, 104) # Transparent

\* C9 (as claimed): for every canonical rectangle and every input width
\* w > 0, each coordinate scale_rect returns equals floor(coordinate * w / 64).
C9_ScaleIsFloor ==
    sc_pc = "scaled" => sc_out = FloorRect(sc_rect, sc_width)

\* C10: for an input of width 64 * k, k >= 1, every coordinate of a scaled
\* rectangle is k times the canonical coordinate, and so are its width and
\* height.
C10_ScalingProportional ==
    (sc_pc = "scaled" /\ sc_width % 64 = 0) =>
        LET kk == sc_width \div 64
        IN  /\ \A i \in 1 .. 4 : sc_out[i] = kk * sc_rect[i]
            /\ sc_out[3] - sc_out[1] = kk * (sc_rect[3] - sc_rect[1])
            /\ sc_out[4] - sc_out[2] = kk * (sc_rect[4] - sc_rect[2])

\* C10 witness: a rectangle has been scaled for a 192-wide input (k = 3)
C10_Witness ==
    /\ sc_pc = "scaled" /\ sc_width = 192
    /\ sc_rect = RIGHT_ARM_BACK_RANGE /\ sc_out = <<156, 60, 168, 96>>

\* the 22 entries of the region table: side and part
TableEntries == {"right", "left"} \X Parts

CanonicalOf(t) == IF t[1] = "right" THEN RightRange[t[2]] ELSE LeftRange[t[2]]

\* C11: for every input width w, multiple of 64 or not, and any two canonical
\* rectangles A and B with A.x1 = B.x0 (or A.y1 = B.y0), the scaled far edge
\* of A equals the scaled near edge of B: no gap and no overlap of one pixel
\* opens between them.
C11_SharedBoundaries ==
    \A a \in TableEntries, b \in TableEntries :
        /\ CanonicalOf(a)[3] = CanonicalOf(b)[1] =>
              sc_areas[a[1]][a[2]][3] = sc_areas[b[1]][b[2]][1]
        /\ CanonicalOf(a)[4] = CanonicalOf(b)[2] =>
              sc_areas[a[1]][a[2]][4] = sc_areas[b[1]][b[2]][2]

\* C11 witness: the table has been scaled for a 100-wide input, where the
\* shared edge x = 16 of the right leg's back and the left leg's inside face
\* falls on 25, and the shared edge y = 20 of the arm's top and front on 31
C11_Witness ==
    /\ sc_pc = "scaled" /\ sc_width = 100
    /\ sc_areas.right["leg_back"] = <<18, 31, 25, 50>>
    /\ sc_areas.left["leg_inside"][1] = 25
    /\ sc_areas.right["arm_top"][4] = 31 /\ sc_areas.right["arm_front"][2] = 31

\* the statements that follow the layout check and precede the overlays
AfterCheck == {"ratio", "alloc", "copy", "scale", "crop"}

\* the call returned from its layout check
ReturnedAtCheck == pc = "done" /\ log # << >> /\ log[Len(log)] = "check"

\* C12: in both entry points the layout check runs before the HD ratio is
\* computed, before any rectangle is scaled, before the canvas is allocated
\* and before any crop; when the check fails, none of those statements has
\* run or ever runs: the call has returned at the check with no ratio, no
\* canvas, no scaled rectangle and no patch.
C12_ValidationFirst ==
    /\ \A i \in 1 .. Len(log) :
          log[i] \in AfterCheck => \E j \in 1 .. (i - 1) : log[j] = "check"
    /\ result = Err(LAYOUT_ERROR) => ReturnedAtCheck
    /\ ReturnedAtCheck =>
          /\ \A i \in 1 .. Len(log) : log[i] \notin AfterCheck
          /\ hd_ratio = 0 /\ output_img = NoBuffer /\ areas = NoAreas
          /\ right = NoPatches /\ left = NoPatches

\* C12 witness: single2double opened a 10x10 file and returned the layout
\* error straight from the check
C12_Witness ==
    /\ entry = "path" /\ pc = "done" /\ log = <<"open", "check">>
    /\ img.width = U32Of(10) /\ img.height = U32Of(10)
    /\ result = Err(LAYOUT_ERROR)

\* how many times the current call has run the statement
Count(name) == Cardinality({ i \in 1 .. Len(log) : log[i] = name })

\* every overlay of the current call came after its base copy
OverlaysAfterCopy ==
    \A i \in 1 .. Len(log) :
        log[i] = "overlay" => \E j \in 1 .. (i - 1) : log[j] = "copy"

ArmParts == { "arm_top", "arm_front", "arm_buttom", "arm_inside", "arm_back", "arm_outside" }

LegParts == { "leg_top_front", "leg_buttom", "leg_inside", "leg_back", "leg_outside" }

\* C13 (as claimed): every successful conversion performs exactly twelve
\* overlay writes, six sub-faces for each of the two limbs, each after the
\* base copy has completed.
C13_TwelveOverlays ==
    Succeeded => (Count("overlay") = 12 /\ OverlaysAfterCopy)

\* C13 (amended): every successful conversion performs exactly eleven overlay
\* writes, six for the arm and five for the leg (whose top and front are one
\* sub-face), each after the base copy has completed, and no overlay runs
\* before the base copy in any call.
C13_ElevenOverlays ==
    /\ OverlaysAfterCopy
    /\ Succeeded =>
          /\ Count("overlay") = 11 /\ Count("copy") = 1
          /\ applied = ArmParts \cup LegParts
          /\ Cardinality(applied \cap ArmParts) = 6
          /\ Cardinality(applied \cap LegParts) = 5

\* C13 witness: a 64x32 conversion has returned its atlas after the copy and
\* the overlays
C13_Witness ==
    /\ entry = "image" /\ Succeeded /\ img.width = U32Of(64)
    /\ Count("overlay") = 11 /\ result.atlas.width = 64

\* the half-open pixel rectangles a and b have a pixel in common
RectsMeet(a, b) ==
    LET x0 == IF a[1] > b[1] THEN a[1] ELSE b[1]
        y0 == IF a[2] > b[2] THEN a[2] ELSE b[2]
        x1 == IF a[3] < b[3] THEN a[3] ELSE b[3]
        y1 == IF a[4] < b[4] THEN a[4] ELSE b[4]
    IN  x0 < x1 /\ y0 < y1

\* C14: for every input width w = 2h, any two distinct destination rectangles
\* (of the same limb or of different limbs), scaled by w / 64, have no pixel
\* in common.
C14_DestinationsDisjoint ==
    sc_width % 2 = 0 =>
        \A p \in Parts, q \in Parts :
            p # q => ~RectsMeet(sc_areas.left[p], sc_areas.left[q])

\* C14 witness: the table has been scaled for a 100-wide input; the left
\* arm's outside and back destinations are non-empty and abut at x = 68
C14_Witness ==
    /\ sc_pc = "scaled" /\ sc_width = 100
    /\ sc_areas.left["arm_outside"] = <<62, 81, 68, 100>>
    /\ sc_areas.left["arm_back"] = <<68, 81, 75, 100>>

\* C15 (as claimed): for every valid input, whatever its width w = 2h
\* (multiple of 64 or not), applying the overlay writes in any permutation
\* yields the atlas the code's order yields.
C15_OrderInconsequential ==
    (entry = "image" /\ Succeeded) => result.atlas = Converted(img)

\* C15 (amended): for every valid input whose width is a multiple of 16,
\* applying the overlay writes in any permutation yields the atlas the code's
\* order yields.
C15_OrderInconsequentialExact ==
    (entry = "image" /\ Succeeded /\ Nat32(img.width) % 16 = 0) =>
        result.atlas = Converted(img)

\* C15 witness: on a 64x32 input ten overlays have run with the code's first
\* one (the arm's outside face) left for last, and running it completes the
\* atlas the code's order yields
C15_Witness ==
    /\ entry = "image" /\ pc = "overlay" /\ img.width = U32Of(64)
    /\ applied = Parts \ {"arm_outside"}
    /\ overlay(output_img, left["arm_outside"],
               areas.left["arm_outside"][1], areas.left["arm_outside"][2]) = Converted(img)
    /\ output_img # Converted(img)

\* C16: at every step of a conversion, from the layout check to the return
\* (success or error), the pixels and the dimensions of the input image stay
\* what they were when the call received it; only decoding a file or a new
\* call gives the converter another input.
C16_InputUnchanged ==
    [][pc \notin {"open", "done"} => img' = img]_vars

\* C16 witness: single2double_image has returned the atlas of the 64x32
\* coordinate image, whose cropped and flipped arm face is 4 wide, and the
\* input is still that image
C16_Witness ==
    /\ entry = "image" /\ Succeeded
    /\ img = MakeImage(64, 32, "coords")
    /\ left["arm_outside"].width = 4 /\ right["arm_outside"].width = 4
    /\ left["arm_outside"] # right["arm_outside"]

\* C17 (as claimed): when the layout check fails, the error value names the
\* expected relationship and carries the actual width and height of the
\* image (a 10x10 image is reported with 10 and 10); so the error value of a
\* rejected image differs from the error value of every rejected image of
\* other dimensions.
C17_ErrorCarriesDimensions ==
    CheckRejected =>
        /\ result.msg = LAYOUT_ERROR
        /\ \A other \in AnyShapeInputs :
              (LayoutCheck(other) = "reject"
                  /\ << other.width, other.height >> # << img.width, img.height >>) =>
                  result # LayoutErrorOf(other)

\* what is left of a returned value for a caller that does not read its text
WithoutText(r) == [r EXCEPT !.msg = ""]

\* the error values of the three failure kinds of single2double
PathErrors == { Err(OPEN_ERROR), Err(LAYOUT_ERROR), Err(SAVE_ERROR) }

\* C18 (as claimed): the three failure kinds of single2double (layout
\* invalid, decode/read failure, encode/write failure) are returned as
\* distinct, inspectable error values whose kind a caller can branch on
\* without parsing message text: the value returned for one kind differs from
\* the values of the other two kinds in more than its text.
C18_ErrorKindsInspectable ==
    (entry = "path" /\ pc = "done" /\ result.kind = "Err") =>
        /\ result \in PathErrors
        /\ \A other \in PathErrors \ {result} : WithoutText(other) # WithoutText(result)

\* how many of the first n statements of the current call were the named one
CountBefore(name, n) == Cardinality({ i \in 1 .. (n - 1) : log[i] = name })

\* C19: in single2double the save starts only after the base copy and every
\* overlay write have completed, on the finished atlas; when decoding or the
\* layout check fails, the save is never invoked, nothing is written to the
\* output path, and the call is not retried.
C19_SaveAfterConstruction ==
    entry = "path" =>
        /\ \A i \in 1 .. Len(log) :
              log[i] = "save" =>
                  /\ CountBefore("copy", i) = 1
                  /\ CountBefore("overlay", i) = Len(OverlayOrder)
                  /\ CountBefore("save", i) = 0
        /\ pc = "save" =>
              /\ applied = Parts /\ output_img = Converted(img)
              /\ out_file = NoOutFile
        /\ out_file # NoOutFile => Count("save") = 1
        /\ Count("open") <= 1 /\ Count("check") <= 1
        /\ (pc = "done" /\ result \in { Err(OPEN_ERROR), Err(LAYOUT_ERROR) }) =>
              /\ Count("save") = 0 /\ out_file = NoOutFile
              /\ Count("open") = 1

\* C19 witness: single2double has saved the finished 64x64 atlas of a 64x32
\* file after the copy and the eleven overlays
C19_Witness ==
    /\ entry = "path" /\ pc = "done" /\ result.kind = "Ok"
    /\ img.width = U32Of(64)
    /\ out_file.exists /\ out_file.image = Converted(img)
    /\ log[Len(log)] = "save" /\ Count("overlay") = 11

\* C20: for every input with width = 2 * height whose width is not a multiple
\* of 64 (widths below 64 included), single2double_image never fails: it
\* scales every rectangle with the same truncation, floor(c * width / 64),
\* and returns Ok with a width x width atlas.
C20_NonIntegerRatioConverts ==
    (entry = "image" /\ IsSingleLayer(img) /\ Nat32(img.width) % HD_BASE # 0) =>
        /\ result.kind \in {"none", "Ok"}
        /\ pc \in {"crop", "flip", "overlay", "return", "done"} =>
              \A p \in Parts :
                  /\ areas.right[p] = FloorRect(RightRange[p], Nat32(img.width))
                  /\ areas.left[p] = FloorRect(LeftRange[p], Nat32(img.width))
        /\ pc = "done" =>
              /\ result.kind = "Ok"
              /\ result.atlas.width = Nat32(img.width)
              /\ result.atlas.height = Nat32(img.width)

\* C20 witness: a 10x5 image has been converted into a 10x10 atlas with the
\* truncated rectangles
C20_Witness ==
    /\ entry = "image" /\ Succeeded /\ img.width = U32Of(10) /\ img.height = U32Of(5)
    /\ result.atlas.width = 10 /\ result.atlas.height = 10
    /\ areas.right["arm_front"] = <<6, 3, 7, 5>>
    /\ areas.left["arm_front"] = <<5, 8, 6, 10>>

\* the rectangle has pixels: x1 > x0 and y1 > y0
NonEmptyRect(r) == r[3] > r[1] /\ r[4] > r[2]

\* the rectangle is well formed: x1 >= x0 and y1 >= y0
OrderedRect(r) == r[3] >= r[1] /\ r[4] >= r[2]

\* the 22 scale(..) statements of the current call have run
AreasScaled ==
    pc \in {"crop", "flip", "overlay", "return", "save"} \/ (pc = "done" /\ result.kind = "Ok")

\* C21 (as claimed): every rectangle the conversion uses, canonical and
\* scaled, satisfies x1 > x0 and y1 > y0, for every input that passes the
\* layout check.
C21_RectanglesNonEmpty ==
    AreasScaled =>
        \A t \in TableEntries :
            NonEmptyRect(CanonicalOf(t)) /\ NonEmptyRect(areas[t[1]][t[2]])

\* C21 (amended): every canonical rectangle satisfies x1 > x0 and y1 > y0;
\* every scaled rectangle satisfies x1 >= x0 and y1 >= y0 for every input that
\* passes the layout check, and x1 > x0 and y1 > y0 when the input is at
\* least 16 wide.
C21_RectanglesOrdered ==
    AreasScaled =>
        \A t \in TableEntries :
            /\ NonEmptyRect(CanonicalOf(t))
            /\ OrderedRect(areas[t[1]][t[2]])
            /\ Nat32(img.width) >= 16 => NonEmptyRect(areas[t[1]][t[2]])

\* C21 witness: for a 16x8 input the scaled right-leg back rectangle is one
\* pixel wide and three high
C21_Witness ==
    /\ AreasScaled /\ img.width = U32Of(16)
    /\ areas.right["leg_back"] = <<3, 5, 4, 8>>

\* what single2double_image returns for the image when it runs alone
AloneResult(image) ==
    IF LayoutCheck(image) = "accept" THEN Ok(Converted(image)) ELSE LayoutErrorOf(image)

\* C22: under any interleaving of the steps of concurrent conversions, and
\* after any sequence of earlier conversions (successful or failed) of the
\* same thread, each conversion returns exactly the result it returns when
\* run alone on the same input, and until it returns its scaled rectangles
\* are those of its own input.
C22_ConversionsIndependent ==
    \A t \in Threads :
        /\ calls[t].pc = "done" => calls[t].result = AloneResult(calls[t].img)
        /\ calls[t].pc \in {"crop", "flip", "overlay", "return"} =>
              calls[t].areas = ScaleAll(hd_ratio_of(Nat32(calls[t].img.width)))

\* C22 witness: thread 1 returned the atlas of the 16x8 coordinate image on
\* its second call while thread 2, converting the 10x5 image, is in the
\* middle of its overlays
C22_Witness ==
    /\ calls[1].pc = "done" /\ calls[1].n = 2
    /\ calls[1].img = MakeImage(16, 8, "coords")
    /\ calls[1].result = Ok(Converted(calls[1].img))
    /\ calls[2].pc = "overlay" /\ calls[2].k = 5
    /\ calls[2].img = MakeImage(10, 5, "coords")

\* C23: the two entry points are equivalent: for every decoded image, the
\* atlas single2double writes to the output path has the pixels and the
\* dimensions of the atlas single2double_image returns for the same image,
\* and single2double fails with the layout error exactly when
\* single2double_image does.
C23_EntryPointsEquivalent ==
    /\ (entry = "image" /\ pc = "done" /\ result.kind # "panic"
            /\ LayoutCheck(img) # "overflow") =>
          result = AloneResult(img)
    /\ (entry = "path" /\ pc = "done" /\ img # NoImage) =>
          /\ result = Err(LAYOUT_ERROR) <=> AloneResult(img) = Err(LAYOUT_ERROR)
          /\ result.kind = "Ok" =>
                /\ AloneResult(img).kind = "Ok"
                /\ out_file.exists /\ out_file.image = AloneResult(img).atlas
          /\ AloneResult(img).kind = "Ok" => result \in { Ok(NoBuffer), Err(SAVE_ERROR) }

\* C23 witness: single2double has written, for the 64x32 file with transparent
\* pixels, the 64x64 atlas single2double_image returns for that image
C23_Witness ==
    /\ entry = "path" /\ pc = "done" /\ result = Ok(NoBuffer)
    /\ img = MakeImage(64, 32, "mixed")
    /\ out_file.image = AloneResult(img).atlas
    /\ out_file.image.width = 64 /\ out_file.image.height = 64

\* the rectangle is ordered and ends within w columns and h rows
RectWithin(r, w, h) == OrderedRect(r) /\ r[3] <= w /\ r[4] <= h

\* C24: for every input with width w = 2h (w = 0 and w < 64 included), every
\* scaled source rectangle lies inside the w x h input, so that no crop reads
\* out of bounds, every scaled destination rectangle lies inside the w x w
\* output, and x0 <= x1 and y0 <= y1 in all of them, so that no width or
\* height subtraction underflows.
C24_GeometryInBounds ==
    sc_width % 2 = 0 =>
        \A p \in Parts :
            /\ RectWithin(sc_areas.right[p], sc_width, sc_width \div 2)
            /\ RectWithin(sc_areas.left[p], sc_width, sc_width)

\* C24 witness: the table has been scaled for a 10x5 input; the right leg's
\* outside source is empty and ends on the last row of the input, and the
\* left arm's back destination ends on the last row of the output
C24_Witness ==
    /\ sc_pc = "scaled" /\ sc_width = 10
    /\ sc_areas.right["leg_outside"] = <<0, 3, 0, 5>>
    /\ sc_areas.left["arm_back"] = <<6, 8, 7, 10>>

\* the pixel (x, y) lies in the half-open rectangle
InRect(r, x, y) == r[1] <= x /\ x < r[3] /\ r[2] <= y /\ y < r[4]

\* C25: for every valid input whose width is a multiple of 16, each patch
\* has exactly the width and height of its scaled destination rectangle, and
\* the overlay anchored at the destination's top-left corner writes the
\* pixels of that destination rectangle only: what the paste leaves there is
\* the blend of the patch, and no pixel outside it, in particular none of
\* another sub-face's destination, changes.
C25_PatchFitsDestination ==
    [][(pc = "overlay" /\ Nat32(img.width) % 16 = 0) =>
          LET part == OverlayOrder[k + 1]
              dst == areas.left[part]
              w == Nat32(img.width)
          IN  /\ left[part].width = dst[3] - dst[1]
              /\ left[part].height = dst[4] - dst[2]
              /\ \A c \in Cells(w, w) :
                    At(output_img'.px, c[1], c[2]) =
                        IF InRect(dst, c[1], c[2])
                        THEN Blend(At(output_img.px, c[1], c[2]),
                                   At(left[part].px, c[1] - dst[1], c[2] - dst[2]))
                        ELSE At(output_img.px, c[1], c[2])]_vars

\* C25 witness: on a 64x32 input the paste of the arm's bottom face, a 4x4
\* patch for the 4x4 destination at (40, 48), has run and left opaque pixels
\* there
C25_Witness ==
    /\ pc = "overlay" /\ k = 4 /\ img.width = U32Of(64)
    /\ left["arm_buttom"].width = 4 /\ left["arm_buttom"].height = 4
    /\ areas.left["arm_buttom"] = <<40, 48, 44, 52>>
    /\ At(output_img.px, 40, 48)[4] = U8_MAX /\ At(output_img.px, 43, 51)[4] = U8_MAX

\* every pixel of the w x w atlas below the base region and outside every
\* scaled destination rectangle is transparent
RestTransparent(atlas, w, ar) ==
    \A c \in Cells(w, w) :
        (c[2] >= w \div 2 /\ \A p \in Parts : ~InRect(ar.left[p], c[1], c[2])) =>
            At(atlas.px, c[1], c[2]) = Transparent

\* C26: for every valid input whose width is a multiple of 16, every output
\* pixel that lies neither in the top-left w x h base region nor in a scaled
\* destination rectangle is (0,0,0,0) after the conversion, in the atlas
\* single2double_image returns and in the file single2double writes.
C26_UntouchedTransparent ==
    (pc = "done" /\ result.kind = "Ok" /\ IsSingleLayer(img)
        /\ Nat32(img.width) % 16 = 0) =>
        /\ entry = "image" => RestTransparent(result.atlas, Nat32(img.width), areas)
        /\ entry = "path" => RestTransparent(out_file.image, Nat32(img.width), areas)

\* C26 witness: the atlas returned for the opaque 64x32 coordinate image is
\* transparent in rows 32..47 and left and right of the destinations, and
\* opaque inside a destination
C26_Witness ==
    /\ entry = "image" /\ Succeeded /\ img = MakeImage(64, 32, "coords")
    /\ At(result.atlas.px, 0, 32) = Transparent /\ At(result.atlas.px, 63, 47) = Transparent
    /\ At(result.atlas.px, 15, 63) = Transparent /\ At(result.atlas.px, 48, 48) = Transparent
    /\ At(result.atlas.px, 16, 52)[4] = U8_MAX

\* the canonical rectangle is as wide and as high as the other
SameSize(a, b) == a[3] - a[1] = b[3] - b[1] /\ a[4] - a[2] = b[4] - b[2]

\* six sub-faces for the arm, five for the leg, and for every sub-face a
\* right-limb source and a left-limb destination of equal canonical size
TablePaired ==
    /\ Parts = ArmParts \cup LegParts
    /\ Cardinality(ArmParts) = 6 /\ Cardinality(LegParts) = 5
    /\ \A p \in Parts : SameSize(RightRange[p], LeftRange[p])

\* C27: the table defines six sub-faces for the arm (outside, top, front,
\* bottom, inside, back) and five for the leg (outside, combined top+front,
\* bottom, inside, back); every paste of the conversion writes the mirror of
\* the right-limb sub-face of the input at the corner of the left-limb
\* destination rectangle of the same name, and the canonical source and
\* destination of every pair have equal width and equal height.
C27_RegionPairing ==
    [][pc = "overlay" =>
          LET part == OverlayOrder[k + 1]
              src == scale_rect(RightRange[part], hd_ratio)
              dst == scale_rect(LeftRange[part], hd_ratio)
              n == src[3] - src[1]
          IN  /\ TablePaired
              /\ \A i \in 0 .. (n - 1), j \in 0 .. (src[4] - src[2] - 1) :
                    At(output_img'.px, dst[1] + (n - 1 - i), dst[2] + j) =
                        Blend(At(output_img.px, dst[1] + (n - 1 - i), dst[2] + j),
                              At(img.px, src[1] + i, src[2] + j))]_vars

\* C27 witness: on the 64x32 coordinate image the arm's inside face, columns
\* 48..51 of the input, has been pasted mirrored into columns 35..32 of the
\* left arm's inside destination
C27_Witness ==
    /\ pc = "overlay" /\ k = 5 /\ img = MakeImage(64, 32, "coords")
    /\ At(output_img.px, 35, 52) = At(img.px, 48, 20)
    /\ At(output_img.px, 32, 63) = At(img.px, 51, 31)
    /\ At(output_img.px, 35, 52) # At(output_img.px, 32, 52)

\* load_texture is past its if
PastTextureGuard == lt_pc = "upload" \/ (lt_pc = "done" /\ lt_result.msg # DECODE_ERROR)

\* the texture holds the rows of the buffer, bottom row first
TextureOf(texture, buffer) ==
    /\ texture.width = buffer.width /\ texture.height = buffer.height
    /\ \A x \in 0 .. buffer.width - 1 : \A y \in 0 .. buffer.height - 1 :
          At(texture.px, x, y) = At(buffer.px, x, buffer.height - 1 - y)

\* C28: Texture::load_texture calls single2double_image exactly when the image has
\* width = 2 * height, and then uploads the width x width atlas the converter
\* returns; an image of any other shape is uploaded with the dimensions and
\* pixels it has; the layout error of the converter is never returned by it.
C28_ConvertsExactlySingleLayer ==
    PastTextureGuard =>
        /\ lt_converted <=> IsSingleLayer(lt_image)
        /\ lt_result.cause # LAYOUT_ERROR
        /\ (lt_pc = "upload" \/ lt_result.kind = "Ok") =>
              IF IsSingleLayer(lt_image)
              THEN /\ lt_local.width = Nat32(lt_image.width)
                   /\ lt_local.height = Nat32(lt_image.width)
                   /\ lt_local = Converted(lt_image)
              ELSE /\ lt_local.width = Nat32(lt_image.width)
                   /\ lt_local.height = Nat32(lt_image.height)
                   /\ lt_local.px = lt_image.px
        /\ lt_result.kind = "Ok" => TextureOf(lt_texture, lt_local)

\* a 64x32 skin was converted and its 64x64 atlas uploaded
C28_Witness ==
    /\ lt_result.kind = "Ok" /\ lt_converted
    /\ Nat32(lt_image.width) = 64 /\ Nat32(lt_image.height) = 32
    /\ lt_texture.width = 64 /\ lt_texture.height = 64

\* a render without a skin has returned
SkinlessReturned == ~rn_skin /\ rn_pc = "done"

\* the render drew nothing, produced no image and wrote no file
NothingRendered ==
    /\ rn_drawn = << >> /\ rn_image = NoFrame /\ rn_result.image = NoFrame /\ ~rn_file

YieldsMesh(file, name) ==
    \E i \in 1 .. Len(file.objects) :
        /\ file.objects[i].name = name
        /\ file.objects[i].positions > 0 /\ file.objects[i].indices > 0

TwelveParts ==
    << "Head", "Hat Layer", "Body", "Body Layer",
       "Right Arm", "Right Arm Layer", "Left Arm", "Left Arm Layer",
       "Right Leg", "Right Leg Layer", "Left Leg", "Left Leg Layer" >>

YieldsAll(file) == \A i \in 1 .. Len(TwelveParts) : YieldsMesh(file, TwelveParts[i])

\* the first of the twelve names, in their order, the file yields no mesh for
FirstAbsent(file) ==
    TwelveParts[CHOOSE i \in 1 .. Len(TwelveParts) :
                    /\ ~YieldsMesh(file, TwelveParts[i])
                    /\ \A j \in 1 .. i - 1 : YieldsMesh(file, TwelveParts[j])]

\* C30 as stated: load_from_obj returns Ok only if the file yields a non-empty
\* mesh for each of the twelve names, and otherwise returns 'Missing model
\* part: <name>' with the first absent name.
C30_AllOrNothing ==
    md_pc = "done" =>
        IF YieldsAll(md_obj) THEN md_result.kind \in { "Ok", "Err" }
        ELSE md_result = ModelErr(MISSING_PART_ERROR, FirstAbsent(md_obj))

\* C30: load_from_obj returns Ok only if the file yields a non-empty mesh for
\* each of the twelve names; an object without positions or without indices
\* counts as absent. A file load_obj rejects returns the error of load_obj; if a
\* vertex buffer cannot be created that error is returned; otherwise a file
\* that lacks a part returns 'Missing model part: <name>' with the first absent
\* name in the order of the twelve, and a file with all twelve returns Ok.
C30_AllOrNothingLoaded ==
    md_pc = "done" =>
        /\ md_result.kind = "Ok" => md_obj.loadable /\ YieldsAll(md_obj)
        /\ IF ~md_obj.loadable THEN md_result = ModelErr(LOAD_OBJ_ERROR, "")
           ELSE IF md_result.msg = VERTEX_BUFFER_ERROR THEN md_result.kind = "Err"
           ELSE IF YieldsAll(md_obj)
                THEN /\ md_result.kind = "Ok"
                     /\ DOMAIN md_result.model = Range(TwelveParts)
           ELSE md_result = ModelErr(MISSING_PART_ERROR, FirstAbsent(md_obj))

\* a file with an index-less "Body Layer" and no usable "Left Leg" was refused
\* for its "Body Layer"
C30_Witness ==
    /\ md_pc = "done"
    /\ md_result = ModelErr(MISSING_PART_ERROR, "Body Layer")
    /\ \E i \in 1 .. Len(md_obj.objects) :
          md_obj.objects[i].name = "Body Layer" /\ md_obj.objects[i].indices = 0
    /\ ~YieldsMesh(md_obj, "Left Leg")

====
